---- MODULE Spec2Model ----
(***************************************************************************)
(* Request orchestration core of aioscraper: the sender, the ready         *)
(* priority queue and the delayed heap, the dispatch loop, the rate        *)
(* limiter groups, the bounded worker pool, the per-request worker with    *)
(* its middleware stages, and the retry middleware.                        *)
(*                                                                         *)
(* Time is an integer clock (one tick stands for the 50 ms slice of the    *)
(* dispatch loop); a sleeper or a timeout may fire at any moment at or     *)
(* after its deadline, never before it.                                    *)
(***************************************************************************)
EXTENDS Integers, Sequences, FiniteSets, TLC

\* ---------------------------------------------------------------- bounds
MaxTime == 2       \* the clock stops advancing here
NSched == 2        \* requests created under the queue configuration
NRate == 2         \* requests created under the rate-limit configuration
NPool == 3         \* requests created under the worker-pool configuration
NMw == 1           \* requests created under the middleware configuration
NRetry == 1        \* requests created under the retry configurations
NTie == 4          \* requests created under the equal-priority configuration
NRun == 2          \* requests created under the runner configurations
NSend == 2         \* requests created under the sender configuration
NReg == 4          \* middleware registrations on one holder
NStep == 2         \* pre-middlewares, pipelines and post-middlewares of a container
NGlobal == 2       \* global pipeline middlewares
NCall == 2         \* calls of call_next by one run of a global middleware
NOut == 3          \* outcomes reported for one rate-limit group
NFifo == 3         \* requests created under the group-order configuration
NSignal == 3       \* SIGINT / SIGTERM deliveries to one run

\* ------------------------------------------------------ program constants
Slice == 1         \* the 0.05 s wait of _next_timeout when the heap is empty
MinInterval == 1   \* the 0.01 s floor of a group interval
OkLimit == 400     \* Response.ok: status < 400

Max(a, b) == IF a >= b THEN a ELSE b

NReq == Max(Max(Max(Max(NSched, NRate), Max(NPool, NMw)), Max(NRetry, NSend)), Max(Max(NTie, NRun), NFifo))
Reqs == 1..NReq
NoPR == [priority |-> 0, request |-> 0]
NoExc == [kind |-> "none", status |-> 0]

\* ------------------------------------------------------------------ heapq
\* heapq over a sequence of PRequest envelopes; PRequest compares on its
\* priority field only (the request is excluded from the comparison).
PRLess(x, y) == x.priority < y.priority

RECURSIVE SiftDown(_, _, _, _)
SiftDown(heap, startpos, pos, newitem) ==
    IF pos > startpos
    THEN LET parentpos == pos \div 2
             parent == heap[parentpos]
         IN IF PRLess(newitem, parent)
            THEN SiftDown([heap EXCEPT ![pos] = parent], startpos, parentpos, newitem)
            ELSE [heap EXCEPT ![pos] = newitem]
    ELSE [heap EXCEPT ![pos] = newitem]

RECURSIVE SiftUp(_, _, _, _)
SiftUp(heap, startpos, pos, newitem) ==
    LET endpos == Len(heap)
        childpos == 2 * pos
        rightpos == childpos + 1
    IN IF childpos <= endpos
       THEN LET c == IF rightpos <= endpos /\ ~PRLess(heap[childpos], heap[rightpos])
                     THEN rightpos ELSE childpos
            IN SiftUp([heap EXCEPT ![pos] = heap[c]], startpos, c, newitem)
       ELSE SiftDown([heap EXCEPT ![pos] = newitem], startpos, pos, newitem)

HeapPush(heap, item) == SiftDown(Append(heap, item), 1, Len(heap) + 1, item)

HeapTop(heap) == heap[1]

HeapPop(heap) ==
    LET lastelt == heap[Len(heap)]
        rest == SubSeq(heap, 1, Len(heap) - 1)
    IN IF rest # << >>
       THEN SiftUp([rest EXCEPT ![1] = lastelt], 1, 1, lastelt)
       ELSE << >>

\* ----------------------------------------------------------------- state
VARIABLES
    cfg,          \* the configuration the engine was built with
    now,          \* monotonic()
    reqs,         \* the Request objects: fields and request.state
    readyQueue,   \* RequestManager._ready_queue (heap array)
    delayedHeap,  \* RequestManager._delayed_heap (heap array)
    wait,         \* RequestManager._wait
    completed,    \* RequestManager._completed
    run,          \* the runner, its events and waiter tasks, the start task, and
                  \* the call of RateLimiterManager.close() (run.rl)
    loop,         \* position of the _listen_queue task
    groups,       \* every RequestGroup ever created, by identity
    groupMap,     \* RateLimiterManager._groups: key -> identity (0: absent)
    jobs,         \* every aiojobs Job ever created and its worker position
    pendingQ,     \* Scheduler._pending
    hist,         \* observations: calls per request, due times, hand-offs
    holder,       \* MiddlewareHolder: the four buckets of (priority, middleware)
    registered,   \* observation: stage and priority of every registration
    disp,         \* one PipelineDispatcher and the put_item call made on it
    adapt         \* one AdaptiveStrategy: its metrics per group, its last call

\* the objects that live beside the engine
libVars == <<holder, registered, disp, adapt>>

vars == <<libVars, cfg, run, now, reqs, readyQueue, delayedHeap, wait, completed, loop,
          groups, groupMap, jobs, pendingQ, hist>>

Hosts == {"a", "b"}

\* --------------------------------------------------------- configurations
RetryOff == [enabled |-> FALSE, attempts |-> 0, delay |-> 0,
             statuses |-> {}, exceptions |-> {}, stop |-> FALSE]

BaseCfg == [
    name |-> "base", nreq |-> 1, horizon |-> MaxTime,
    rateLimit |-> FALSE, interval |-> 0, cleanup |-> 1,
    limit |-> 1, pending |-> 1,
    nOuter |-> 0, nInner |-> 0, nResponse |-> 0, excChain |-> << >>,
    retry |-> RetryOff,
    prios |-> {0}, delays |-> {0}, hosts |-> {"a"},
    rfs |-> {TRUE}, cbs |-> {TRUE}, ebs |-> {TRUE},
    mwOut |-> {"ok"}, statuses |-> {200}, transportErr |-> {},
    cbOut |-> {"ok"}, ebOut |-> {"ok"},
    execTimeout |-> 0, shutdownTimeout |-> 1,
    backoff |-> "constant", baseDelay |-> 1, maxDelay |-> 2, retryAfter |-> 0,
    bodies |-> {{}}, handErr |-> {FALSE}, schedErr |-> {FALSE}]

\* the two-queue scheduler: priorities and delays
CfgSched == [BaseCfg EXCEPT !.name = "sched", !.nreq = NSched, !.limit = 2,
                           !.prios = {0, 1}, !.delays = {0, 1}]

\* delayed requests with different delays, sent at any time
CfgDelay == [BaseCfg EXCEPT !.name = "delay", !.nreq = NSched, !.limit = 2,
                           !.delays = {1, 2}]

\* requests whose json_data, data and files were set before they are sent:
\* none of them, json_data alone, data with files, and json_data with data,
\* with files and with both; some of the requests are delayed
CfgSend == [BaseCfg EXCEPT !.name = "send", !.nreq = NSend, !.limit = 2,
                          !.delays = {0, 1}, !.horizon = 1,
                          !.bodies = {b \in SUBSET {"json_data", "data", "files"} :
                                         "json_data" \in b \/ Cardinality(b) # 1}]

\* rate limiting of one host, with the time for a group to be created, to
\* work, to idle out (interval + cleanup timeout) and to be created again
CfgRate == [BaseCfg EXCEPT !.name = "rate", !.nreq = NRate, !.rateLimit = TRUE,
                          !.interval = 1, !.limit = 2, !.horizon = MaxTime + 1]

\* the worker pool under pressure: one slot, one pending place; requests
\* with and without a delay
CfgPool == [BaseCfg EXCEPT !.name = "pool", !.nreq = NPool, !.delays = {0, 1}]

\* one host whose requests differ in priority: the first is scheduled and
\* the others are handed to the group while its worker sleeps
CfgFifo == [BaseCfg EXCEPT !.name = "fifo", !.nreq = NFifo, !.rateLimit = TRUE,
                          !.interval = 1, !.limit = NFifo, !.horizon = 1,
                          !.prios = {0, 1}, !.cbs = {FALSE}]

\* a group_by that may raise and a schedule call that may raise, for one
\* host; and, without groups, a schedule call that may raise
CfgFail == [BaseCfg EXCEPT !.name = "fail", !.nreq = NRate, !.rateLimit = TRUE,
                          !.interval = 1, !.limit = 2, !.horizon = 1,
                          !.cbs = {FALSE},
                          !.handErr = {FALSE, TRUE}, !.schedErr = {FALSE, TRUE}]

CfgFailDirect == [BaseCfg EXCEPT !.name = "failDirect", !.nreq = NRate, !.limit = 2,
                                !.horizon = 1, !.cbs = {FALSE},
                                !.handErr = {FALSE, TRUE}]

\* requests sent by producers and by callbacks, through one rate-limit
\* group or straight to the pool
CfgLive == [BaseCfg EXCEPT !.name = "live", !.nreq = NRun, !.rateLimit = TRUE,
                          !.interval = 1, !.limit = 2, !.horizon = 0]

CfgLiveDirect == [BaseCfg EXCEPT !.name = "livedirect", !.nreq = NRun, !.limit = 2,
                                !.horizon = 0]

\* rate limiting of two hosts, with the time for a group to idle out
CfgClose == [BaseCfg EXCEPT !.name = "close", !.nreq = NRate, !.rateLimit = TRUE,
                           !.interval = 1, !.limit = 2, !.horizon = MaxTime + 1,
                           !.hosts = {"a", "b"}, !.cbs = {FALSE}]

\* rate limiting by host feeding a pool of one slot and one pending place
CfgRatePool == [BaseCfg EXCEPT !.name = "ratepool", !.nreq = NPool, !.horizon = 1,
                              !.rateLimit = TRUE, !.interval = 1,
                              !.hosts = {"a", "b"}]

\* every middleware stage, every outcome of a middleware, callback, errback
CfgMw == [BaseCfg EXCEPT !.name = "mw", !.nreq = NMw, !.horizon = 1,
                        !.nOuter = 1, !.nInner = 2, !.nResponse = 2,
                        !.excChain = <<"user", "user">>,
                        !.mwOut = {"ok", "stopMw", "stopReq", "error"},
                        !.statuses = {200, 500}, !.transportErr = {"other"},
                        !.rfs = {TRUE, FALSE}, !.cbs = {TRUE, FALSE},
                        !.ebs = {TRUE, FALSE},
                        !.cbOut = {"ok", "error"}, !.ebOut = {"ok", "error"}]

\* two outer middlewares with every outcome, and nothing else in the way
CfgOuter == [BaseCfg EXCEPT !.name = "outer", !.nreq = NMw, !.horizon = 1,
                           !.nOuter = 2,
                           !.mwOut = {"ok", "stopMw", "stopReq", "error"}]

\* the retry middleware alone in the exception chain, stopping the request
CfgRetry == [BaseCfg EXCEPT !.name = "retry", !.nreq = NRetry,
                           !.excChain = <<"retry">>,
                           !.retry = [enabled |-> TRUE, attempts |-> 2, delay |-> 1,
                                      statuses |-> {502}, exceptions |-> {"timeout"},
                                      stop |-> TRUE],
                           !.statuses = {200, 404, 502},
                           !.transportErr = {"timeout", "other"},
                           !.rfs = {TRUE, FALSE}, !.ebOut = {"ok", "error"},
                           !.backoff = "linear", !.retryAfter = 2]

\* the retry middleware followed by a user middleware, not stopping
CfgRetryGo == [CfgRetry EXCEPT !.name = "retrygo",
                              !.excChain = <<"retry", "user">>,
                              !.retry.stop = FALSE, !.retry.attempts = 1,
                              !.mwOut = {"ok", "stopReq"},
                              !.backoff = "exponential"]

\* requests of one priority, none delayed, and a pool that takes them all
CfgTie == [BaseCfg EXCEPT !.name = "tie", !.nreq = NTie, !.limit = NTie]

\* a run under the runner: no execution timeout, or one of a tick
CfgRun == [BaseCfg EXCEPT !.name = "run", !.nreq = NRun]

CfgRunTimeout == [CfgRun EXCEPT !.name = "runTimeout", !.execTimeout = 1]

SchedConfigs == {CfgSched}
RunConfigs == {CfgRun, CfgRunTimeout}
TieConfigs == {CfgTie}
RateConfigs == {CfgRate, CfgPool, CfgRatePool}
WorkerConfigs == {CfgMw, CfgOuter}
RetryConfigs == {CfgRetry, CfgRetryGo}
Configs == SchedConfigs \cup RateConfigs \cup WorkerConfigs \cup RetryConfigs
               \cup TieConfigs

\* ------------------------------------------------------------------ Init
NewReq == [st |-> "new", priority |-> 0, delay |-> 0, host |-> "a",
           rfs |-> TRUE, cb |-> FALSE, eb |-> FALSE, retries |-> 0, body |-> {}]

NoHist == [transport |-> [r \in Reqs |-> 0],
           callback |-> [r \in Reqs |-> 0],
           errback |-> [r \in Reqs |-> 0],
           resent |-> [r \in Reqs |-> 0],
           sub |-> [r \in Reqs |-> 0],
           delay |-> [r \in Reqs |-> 0],
           outcomes |-> [r \in Reqs |-> << >>],
           lastSched |-> [h \in Hosts |-> -1]]

\* the runner before _run_scraper has reacted to anything
NoRun == [shutdown |-> FALSE, force |-> FALSE,
          shTask |-> "pending", toTask |-> "pending", feTask |-> "pending",
          start |-> "gather", cancelCalls |-> 0,
          inner |-> "wait", outer |-> "wait", forced |-> FALSE,
          closes |-> 0, closeIdx |-> 0, closed |-> {},
          drainAt |-> 0, queued |-> {},
          rl |-> [pc |-> "idle", list |-> << >>, idx |-> 1, calls |-> 0],
          signals |-> 0]

InitEngine(C) ==
    /\ cfg \in C
    /\ run = [NoRun EXCEPT !.toTask = IF cfg.execTimeout = 0 THEN "none" ELSE "pending"]
    /\ now = 0
    /\ reqs = [r \in Reqs |-> NewReq]
    /\ readyQueue = << >>
    /\ delayedHeap = << >>
    /\ wait = TRUE
    /\ completed = FALSE
    /\ loop = [pc |-> "top", pr |-> NoPR, deadline |-> 0, idx |-> 0, raised |-> FALSE]
    /\ groups = << >>
    /\ groupMap = [h \in Hosts |-> 0]
    /\ jobs = << >>
    /\ pendingQ = << >>
    /\ hist = NoHist

\* MiddlewareHolder.__init__
NewHolder == [outer |-> << >>, inner |-> << >>, exception |-> << >>, response |-> << >>]

\* a dispatcher without containers and without global middlewares
NoShape == [pre |-> 0, pipe |-> 0, post |-> 0, globals |-> 0,
            registered |-> FALSE, strict |-> FALSE, outs |-> {"ok"}]

\* the dispatcher before put_item is called with the item << >>; an item is
\* the sequence of the steps that have returned it
NewDisp(shape) ==
    [shape |-> shape, pc |-> "idle", idx |-> 0, item |-> << >>, stack |-> << >>,
     audit |-> << >>, result |-> << >>, raised |-> "none", runs |-> 0,
     entered |-> [g \in 1..shape.globals |-> 0],
     ncalls |-> [g \in 1..shape.globals |-> 0]]

\* AdaptiveRateLimitConfig in units of one tick: the interval may move
\* between 2 and 6, doubles on a failure and drops by 2 from the second
\* success in a row on
AdaptiveCfg == [min |-> 2, max |-> 6, factor |-> 2, step |-> 2, threshold |-> 2,
                respect |-> FALSE]

\* AdaptiveMetrics() of a group nothing was recorded for
NewMetrics == [success |-> 0, failure |-> 0, total |-> 0]

NoOutcome == [trigger |-> FALSE, has |-> FALSE, retryAfter |-> 0]

\* AdaptiveStrategy(...) before its first call; log keeps what was recorded
\* per group, oldest first
NewAdapt(c) ==
    [c |-> c, metrics |-> [k \in Hosts |-> NewMetrics], log |-> [k \in Hosts |-> << >>],
     last |-> [key |-> "a", current |-> 0, outcome |-> NoOutcome, next |-> 0]]

InitLib ==
    /\ holder = NewHolder
    /\ registered = << >>
    /\ disp = NewDisp(NoShape)
    /\ adapt = NewAdapt(AdaptiveCfg)

InitWith(C) == InitEngine(C) /\ InitLib

Init == InitWith(Configs)

\* ---------------------------------------------------------------- sender
\* sender(request): a request with a delay goes to the heap under
\* now + delay, any other to the ready queue under request.priority
SenderReady(rq, r) ==
    IF rq[r].delay # 0 THEN readyQueue
    ELSE HeapPush(readyQueue, [priority |-> rq[r].priority, request |-> r])

SenderHeap(rq, r) ==
    IF rq[r].delay # 0
    THEN HeapPush(delayedHeap, [priority |-> now + rq[r].delay, request |-> r])
    ELSE delayedHeap

\* some coroutine that holds send_request is running: a producer (until
\* wait() is called) or the callback / errback of a request
CanSend ==
    \/ wait
    \/ \E j \in DOMAIN jobs : jobs[j].pc \in {"callback", "errback"}

\* a sender that checks json_data against data only
RejectedDataOnly(body) == {"json_data", "data"} \subseteq body

\* the two checks of the sender that raise InvalidRequestData; body is the
\* set of the fields json_data, data and files that are not None
Rejected(body) ==
    \/ ("json_data" \in body /\ "data" \in body)
    \/ ("json_data" \in body /\ "files" \in body)

\* a producer or a callback builds a Request, sets its fields, and passes it
\* to the sender, which refuses it or puts it on the queue or the heap
Submit ==
    /\ CanSend
    /\ \E r \in Reqs, p \in cfg.prios, d \in cfg.delays, h \in cfg.hosts,
          f \in cfg.rfs, c \in cfg.cbs, e \in cfg.ebs, b \in cfg.bodies :
         /\ r <= cfg.nreq
         /\ reqs[r].st = "new"
         /\ \A q \in Reqs : q < r => reqs[q].st # "new"
         /\ LET rq == [reqs EXCEPT ![r] = [st |-> "sent", priority |-> p, delay |-> d,
                                           host |-> h, rfs |-> f, cb |-> c, eb |-> e,
                                           retries |-> 0, body |-> b]]
            IN IF Rejected(b)
               THEN /\ reqs' = [rq EXCEPT ![r].st = "rejected"]
                    /\ UNCHANGED <<readyQueue, delayedHeap, hist>>
               ELSE /\ reqs' = rq
                    /\ readyQueue' = SenderReady(rq, r)
                    /\ delayedHeap' = SenderHeap(rq, r)
                    /\ hist' = [hist EXCEPT !.sub[r] = IF d # 0 THEN now ELSE 0,
                                            !.delay[r] = d]
    /\ UNCHANGED <<libVars, cfg, run, now, wait, completed, loop, groups, groupMap, jobs, pendingQ>>

\* RequestManager.wait(): the producers have returned
Wait ==
    /\ wait
    /\ wait' = FALSE
    /\ UNCHANGED <<libVars, cfg, run, now, reqs, readyQueue, delayedHeap, completed, loop,
                   groups, groupMap, jobs, pendingQ, hist>>

\* the monotonic clock advances
Tick ==
    /\ now < cfg.horizon
    /\ now' = now + 1
    /\ UNCHANGED <<libVars, cfg, run, reqs, readyQueue, delayedHeap, wait, completed, loop,
                   groups, groupMap, jobs, pendingQ, hist>>

\* ------------------------------------------------------------ worker pool
\* aiojobs.Scheduler(limit=concurrent_requests, pending_limit=pending_requests)
JobActive(job) == job.pc \notin {"blocked", "pending", "closed"}
InScheduler(job) == job.pc \notin {"blocked", "closed"}
ActiveCount(js) == Cardinality({j \in DOMAIN js : JobActive(js[j])})
SchedulerLen(js) == Cardinality({j \in DOMAIN js : InScheduler(js[j])})
PendingFull(q) == cfg.pending > 0 /\ Len(q) >= cfg.pending

StartPc == IF cfg.nInner > 0 THEN "inner" ELSE "transport"

NewJob(r, who) ==
    [req |-> r, spawner |-> who, pc |-> "blocked", idx |-> 1, status |-> 0,
     exc |-> NoExc, ctx |-> "none", wake |-> 0,
     tr |-> 0, cb |-> 0, cbOk |-> FALSE, eb |-> 0, excInv |-> 0, calls |-> 0,
     stopAt |-> "none", pre |-> FALSE, smw |-> {}, last |-> "none", nsmw |-> 0,
     routed |-> FALSE, hexc |-> NoExc, chain |-> "none", excErr |-> 0,
     entered |-> 0, released |-> 0]

\* a spawn that starts one job more than the limit allows
SpawnPcOffByOne ==
    IF ActiveCount(jobs) <= cfg.limit THEN StartPc
    ELSE IF ~PendingFull(pendingQ) THEN "pending"
    ELSE "blocked"

\* Scheduler.spawn: start the job when a slot is free, else queue it as
\* pending, else leave the caller waiting on the full pending queue
SpawnPc ==
    IF ActiveCount(jobs) < cfg.limit THEN StartPc
    ELSE IF ~PendingFull(pendingQ) THEN "pending"
    ELSE "blocked"

SpawnJobs(r, who) == Append(jobs, [NewJob(r, who) EXCEPT !.pc = SpawnPc])

SpawnPending ==
    IF SpawnPc = "pending" THEN Append(pendingQ, Len(jobs) + 1) ELSE pendingQ

\* Scheduler._done: start pending jobs while slots are free
RECURSIVE StartPending(_, _)
StartPending(js, q) ==
    IF q # << >> /\ ActiveCount(js) < cfg.limit
    THEN StartPending([js EXCEPT ![Head(q)].pc = StartPc], Tail(q))
    ELSE [jobs |-> js, pendingQ |-> q]

\* --------------------------------------------------------- dispatch loop
\* RateLimiterManager.active: some group in the map has a queued request
RateActive ==
    \E h \in Hosts : groupMap[h] # 0 /\ groups[groupMap[h]].queue # << >>

\* a while condition that does not look at the wait flag
LoopConditionNoWait ==
    \/ SchedulerLen(jobs) > 0
    \/ RateActive
    \/ readyQueue # << >>
    \/ delayedHeap # << >>

\* the while condition of _listen_queue
LoopCondition ==
    \/ SchedulerLen(jobs) > 0
    \/ RateActive
    \/ readyQueue # << >>
    \/ delayedHeap # << >>
    \/ wait

\* a due test that lets an envelope go one tick early
DuePoppedEarly(pr, t) == pr.priority <= t + 1

DuePopped(pr, t) == pr.priority <= t

\* a drain that pops the due envelopes and forgets to queue them
RECURSIVE PopDueDelayedDrop(_, _, _)
PopDueDelayedDrop(heap, queue, t) ==
    IF heap # << >> /\ DuePopped(HeapTop(heap), t)
    THEN PopDueDelayedDrop(HeapPop(heap), queue, t)
    ELSE [heap |-> heap, queue |-> queue]

\* _pop_due_delayed: move every due envelope, as it is, to the ready queue
RECURSIVE PopDueDelayed(_, _, _)
PopDueDelayed(heap, queue, t) ==
    IF heap # << >> /\ DuePopped(HeapTop(heap), t)
    THEN PopDueDelayed(HeapPop(heap), HeapPush(queue, HeapTop(heap)), t)
    ELSE [heap |-> heap, queue |-> queue]

\* _next_timeout
NextTimeout(heap, t) ==
    IF heap = << >> THEN Slice
    ELSE IF HeapTop(heap).priority - t <= 0 THEN 0
    ELSE HeapTop(heap).priority - t

AfterGetPc == IF cfg.nOuter > 0 THEN "outer" ELSE "limit"

\* one evaluation of the while condition; when it holds, the heap is
\* drained and the loop starts waiting on the ready queue
LoopTop ==
    /\ loop.pc = "top"
    /\ IF ~LoopCondition
       THEN /\ completed' = TRUE
            /\ loop' = [loop EXCEPT !.pc = "done"]
            /\ UNCHANGED <<reqs, readyQueue, delayedHeap>>
       ELSE LET res == PopDueDelayed(delayedHeap, readyQueue, now)
                moved == {delayedHeap[i].request : i \in DOMAIN delayedHeap}
                           \ {res.heap[i].request : i \in DOMAIN res.heap}
            IN /\ delayedHeap' = res.heap
               /\ readyQueue' = res.queue
               /\ reqs' = [r \in Reqs |->
                             IF r \in moved THEN [reqs[r] EXCEPT !.delay = 0] ELSE reqs[r]]
               /\ loop' = [loop EXCEPT !.pc = "get",
                                       !.deadline = now + NextTimeout(res.heap, now)]
               /\ UNCHANGED completed
    /\ UNCHANGED <<libVars, cfg, run, now, wait, groups, groupMap, jobs, pendingQ, hist>>

\* wait_for(self._ready_queue.get(), timeout) returns an envelope
LoopGet ==
    /\ loop.pc = "get"
    /\ readyQueue # << >>
    /\ loop' = [loop EXCEPT !.pc = AfterGetPc, !.pr = HeapTop(readyQueue), !.idx = 1]
    /\ readyQueue' = HeapPop(readyQueue)
    /\ UNCHANGED <<libVars, cfg, run, now, reqs, delayedHeap, wait, completed, groups, groupMap,
                   jobs, pendingQ, hist>>

\* wait_for raises TimeoutError: continue
LoopTimeout ==
    /\ loop.pc = "get"
    /\ now >= loop.deadline
    /\ loop' = [loop EXCEPT !.pc = "top"]
    /\ UNCHANGED <<libVars, cfg, run, now, reqs, readyQueue, delayedHeap, wait, completed,
                   groups, groupMap, jobs, pendingQ, hist>>

\* an outer chain that StopRequestProcessing ends, dropping the request
AfterOuterAbort(l, o) ==
    IF o = "stopReq" THEN [l EXCEPT !.pc = "top", !.pr = NoPR, !.raised = FALSE]
    ELSE IF l.idx < cfg.nOuter
    THEN [l EXCEPT !.idx = l.idx + 1, !.raised = l.raised \/ o # "ok"]
    ELSE [l EXCEPT !.pc = "limit", !.raised = l.raised \/ o # "ok"]

\* the loop after an outer middleware that returned or raised o: both
\* except clauses only log, and the for statement goes on
AfterOuter(l, o) ==
    IF l.idx < cfg.nOuter
    THEN [l EXCEPT !.idx = l.idx + 1, !.raised = l.raised \/ o # "ok"]
    ELSE [l EXCEPT !.pc = "limit", !.raised = l.raised \/ o # "ok"]

\* _process_request: one outer middleware; whatever it raises is ignored
LoopOuter ==
    /\ loop.pc = "outer"
    /\ \E o \in cfg.mwOut : loop' = AfterOuter(loop, o)
    /\ UNCHANGED <<libVars, cfg, run, now, reqs, readyQueue, delayedHeap, wait, completed,
                   groups, groupMap, jobs, pendingQ, hist>>

\* an exception raised by the rate limiter call leaves _process_request and
\* the shield; _listen_queue catches CancelledError only, so the task of the
\* loop ends with it and the completed flag is never set
LoopRaise(l) == [l EXCEPT !.pc = "crashed", !.pr = NoPR, !.raised = FALSE]

\* _handle_without_group: schedule the request, then sleep default_interval;
\* the schedule call may raise
LoopSchedule ==
    /\ loop.pc = "limit"
    /\ ~cfg.rateLimit
    /\ \E e \in cfg.handErr :
         IF e
         THEN /\ loop' = LoopRaise(loop)
              /\ UNCHANGED <<jobs, pendingQ>>
         ELSE /\ jobs' = SpawnJobs(loop.pr.request, 0)
              /\ pendingQ' = SpawnPending
              /\ loop' = IF SpawnPc = "blocked"
                         THEN [loop EXCEPT !.pc = "spawn", !.raised = FALSE]
                         ELSE [loop EXCEPT !.pc = "sleep", !.deadline = now + cfg.interval,
                                           !.raised = FALSE]
    /\ UNCHANGED <<libVars, cfg, run, now, reqs, readyQueue, delayedHeap, wait, completed,
                   groups, groupMap, hist>>

\* asyncio.sleep(default_interval) is over
LoopWake ==
    /\ loop.pc = "sleep"
    /\ now >= loop.deadline
    /\ loop' = [loop EXCEPT !.pc = "top", !.pr = NoPR]
    /\ UNCHANGED <<libVars, cfg, run, now, reqs, readyQueue, delayedHeap, wait, completed,
                   groups, groupMap, jobs, pendingQ, hist>>

\* ----------------------------------------------------------- rate limiter
GroupInterval(i) == IF i <= 0 THEN MinInterval ELSE i

CleanupTimeout(i) == Max(cfg.cleanup, i * 2)

\* RequestGroup(...): the queue is an asyncio.PriorityQueue (a heap array);
\* order lists the queued requests in the order of the put calls
NewGroup(h) ==
    [key |-> h, interval |-> GroupInterval(cfg.interval),
     cleanup |-> CleanupTimeout(GroupInterval(cfg.interval)),
     queue |-> << >>, order |-> << >>, pc |-> "get", pr |-> NoPR, spared |-> FALSE,
     failed |-> 0,
     deadline |-> now + CleanupTimeout(GroupInterval(cfg.interval))]

\* _handle_with_group: group_by gives the key, or raises; find or create
\* the group of the key, put the envelope
LoopGroupPut ==
    /\ loop.pc = "limit"
    /\ cfg.rateLimit
    /\ \E e \in cfg.handErr :
         IF e
         THEN /\ loop' = LoopRaise(loop)
              /\ UNCHANGED <<groups, groupMap>>
         ELSE LET h == reqs[loop.pr.request].host
                  g == IF groupMap[h] = 0 THEN Len(groups) + 1 ELSE groupMap[h]
                  gs == IF groupMap[h] = 0 THEN Append(groups, NewGroup(h)) ELSE groups
              IN /\ groups' = [gs EXCEPT ![g].queue = HeapPush(gs[g].queue, loop.pr),
                                          ![g].order = Append(gs[g].order, loop.pr.request)]
                 /\ groupMap' = [groupMap EXCEPT ![h] = g]
                 /\ loop' = [loop EXCEPT !.pc = "top", !.pr = NoPR, !.raised = FALSE]
    /\ UNCHANGED <<libVars, cfg, run, now, reqs, readyQueue, delayedHeap, wait, completed,
                   jobs, pendingQ, hist>>

\* an on-finished callback that pops the key without looking at the entry
OnGroupFinishedAnyway(map, h, g) == [map EXCEPT ![h] = 0]

\* _on_group_finished: drop the map entry only when it is this very group
OnGroupFinished(map, h, g) == IF map[h] = g THEN [map EXCEPT ![h] = 0] ELSE map

\* RequestGroup._worker: wait_for(self._queue.get(), cleanup_timeout) returns
GroupGet(g) ==
    /\ groups[g].pc = "get"
    /\ groups[g].queue # << >>
    /\ groups' = [groups EXCEPT ![g].pc = "sched",
                                ![g].pr = HeapTop(groups[g].queue),
                                ![g].queue = HeapPop(groups[g].queue),
                                ![g].order = SelectSeq(groups[g].order,
                                    LAMBDA r : r # HeapTop(groups[g].queue).request)]
    /\ UNCHANGED <<libVars, cfg, run, now, reqs, readyQueue, delayedHeap, wait, completed, loop,
                   groupMap, jobs, pendingQ, hist>>

\* a worker that takes every timeout for idleness
IdleAnyway(grp) == TRUE

\* the test after the timeout: the queue is (still) empty
Idle(grp) == grp.queue = << >>

\* the wait timed out: go on when a request slipped in, else finish
GroupIdle(g) ==
    /\ groups[g].pc = "get"
    /\ now >= groups[g].deadline
    /\ IF ~Idle(groups[g])
       THEN /\ groups' = [groups EXCEPT ![g].deadline = now + groups[g].cleanup]
            /\ UNCHANGED groupMap
       ELSE /\ groups' = [groups EXCEPT ![g].pc = "exited"]
            /\ groupMap' = OnGroupFinished(groupMap, groups[g].key, g)
    /\ UNCHANGED <<libVars, cfg, run, now, reqs, readyQueue, delayedHeap, wait, completed, loop,
                   jobs, pendingQ, hist>>

\* the done callback of the worker task calls on_finished once more
GroupTaskDone(g) ==
    /\ groups[g].pc = "exited"
    /\ groups' = [groups EXCEPT ![g].pc = "closed",
                                ![g].spared = groupMap[groups[g].key] \notin {0, g}]
    /\ groupMap' = OnGroupFinished(groupMap, groups[g].key, g)
    /\ UNCHANGED <<libVars, cfg, run, now, reqs, readyQueue, delayedHeap, wait, completed, loop,
                   jobs, pendingQ, hist>>

\* a worker that does not sleep between two requests
GroupNoSleep(t, interval) == t

\* asyncio.sleep(self._interval) started at t ends no earlier than this
GroupSleepUntil(t, interval) == t + interval

\* a worker that lets the exception of the schedule call end its task
GroupRaiseEnds(gs, g) == [gs EXCEPT ![g].pc = "exited", ![g].pr = NoPR]

\* "except Exception" around the schedule call: the error is logged and the
\* worker goes on to its sleep
GroupRaise(gs, g) ==
    [gs EXCEPT ![g].pc = "sleep", ![g].pr = NoPR, ![g].failed = gs[g].failed + 1,
               ![g].deadline = GroupSleepUntil(now, gs[g].interval)]

\* await self._schedule(pr), which may raise, then asyncio.sleep(self._interval)
GroupSchedule(g) ==
    /\ groups[g].pc = "sched"
    /\ \E e \in cfg.schedErr :
         IF e
         THEN /\ groups' = GroupRaise(groups, g)
              /\ UNCHANGED <<jobs, pendingQ>>
         ELSE /\ jobs' = SpawnJobs(groups[g].pr.request, g)
              /\ pendingQ' = SpawnPending
              /\ groups' = IF SpawnPc = "blocked"
                           THEN [groups EXCEPT ![g].pc = "spawn"]
                           ELSE [groups EXCEPT ![g].pc = "sleep", ![g].pr = NoPR,
                                               ![g].deadline =
                                                   GroupSleepUntil(now, groups[g].interval)]
    /\ hist' = [hist EXCEPT !.lastSched[groups[g].key] = now]
    /\ UNCHANGED <<libVars, cfg, run, now, reqs, readyQueue, delayedHeap, wait, completed, loop,
                   groupMap>>

\* the sleep between two requests of the group is over
GroupWake(g) ==
    /\ groups[g].pc = "sleep"
    /\ now >= groups[g].deadline
    /\ groups' = [groups EXCEPT ![g].pc = "get",
                                ![g].deadline = now + groups[g].cleanup]
    /\ UNCHANGED <<libVars, cfg, run, now, reqs, readyQueue, delayedHeap, wait, completed, loop,
                   groupMap, jobs, pendingQ, hist>>

\* a spawn() that waited on the full pending queue gets its job in and
\* returns to its caller (the dispatch loop or a group worker)
SpawnResume(j) ==
    /\ jobs[j].pc = "blocked"
    /\ ~PendingFull(pendingQ)
    /\ jobs' = [jobs EXCEPT ![j].pc = "pending"]
    /\ pendingQ' = Append(pendingQ, j)
    /\ IF jobs[j].spawner = 0
       THEN /\ loop' = [loop EXCEPT !.pc = "sleep", !.deadline = now + cfg.interval]
            /\ UNCHANGED groups
       ELSE /\ groups' = [groups EXCEPT ![jobs[j].spawner].pc = "sleep",
                                        ![jobs[j].spawner].pr = NoPR,
                                        ![jobs[j].spawner].deadline =
                                            GroupSleepUntil(now, groups[jobs[j].spawner].interval)]
            /\ UNCHANGED loop
    /\ UNCHANGED <<libVars, cfg, run, now, reqs, readyQueue, delayedHeap, wait, completed,
                   groupMap, hist>>

\* ---------------------------------------------------------------- worker
\* _send_request / _handle_exception for the request of one job

\* the worker is inside "async with self._session.make_request(request) as
\* response": in the response stage, in the callback, or in the
\* _handle_exception call of the HTTP-error branch
InContext(job) ==
    \/ job.pc \in {"response", "callback"}
    \/ job.ctx = "try" /\ job.pc \in {"exc", "retrySleep", "errback"}

\* a response that is released by a statement at the end of the block,
\* which a return or an exception inside the block skips
ScopedAtEnd(old, new) ==
    IF InContext(old) /\ new.pc = "finished" /\ new.stopAt = "none" /\ new.ctx # "raised"
    THEN [new EXCEPT !.released = new.released + 1]
    ELSE new

\* a step of the worker from old to new: __aexit__ of the response context
\* runs when the step leaves the block, however it leaves it
Scoped(old, new) ==
    IF InContext(old) /\ ~InContext(new)
    THEN [new EXCEPT !.released = new.released + 1]
    ELSE new

\* the errback step of _handle_exception: call it, or log when there is none
AfterChain(job) ==
    IF reqs[job.req].eb
    THEN [job EXCEPT !.pc = "errback", !.chain = "done"]
    ELSE [job EXCEPT !.pc = "finished", !.chain = "done"]

\* _handle_exception(request, exc) is entered, from the HTTP-error branch
\* inside the try ("try") or from the except clause ("except")
EnterHandle(job, exc, ctx) ==
    LET j1 == [job EXCEPT !.exc = exc, !.ctx = ctx,
                          !.hexc = IF job.hexc = NoExc THEN exc ELSE job.hexc]
    IN IF cfg.excChain # << >>
       THEN [j1 EXCEPT !.pc = "exc", !.idx = 1, !.chain = "running"]
       ELSE AfterChain(j1)

\* an exception leaves _handle_exception: inside the try it is caught by
\* the except clause, which handles it in turn; else it leaves the worker
RaiseInHandler(job, exc) ==
    IF job.ctx = "try"
    THEN EnterHandle(job, exc, "except")
    ELSE [job EXCEPT !.pc = "finished", !.ctx = "raised"]

\* the exception middleware returned normally
NextExc(job) ==
    IF job.idx < Len(cfg.excChain)
    THEN [job EXCEPT !.idx = job.idx + 1]
    ELSE AfterChain(job)

\* a check that takes every response for a good one
ResponseAlwaysOk(status) == TRUE

\* Response.ok
ResponseOk(status) == status < OkLimit

\* after the response stage: callback, or the HTTP-error path
Route(job) ==
    LET j1 == [job EXCEPT !.routed = TRUE]
    IN IF ResponseOk(job.status) \/ ~reqs[job.req].rfs
       THEN IF reqs[job.req].cb
            THEN [j1 EXCEPT !.pc = "callback"]
            ELSE [j1 EXCEPT !.pc = "finished"]
       ELSE EnterHandle(j1, [kind |-> "http", status |-> job.status], "try")

AfterTransport(job) ==
    IF cfg.nResponse > 0
    THEN [job EXCEPT !.pc = "response", !.idx = 1]
    ELSE Route(job)

\* a StopRequestProcessing handled like a StopMiddlewareProcessing: break
StopRequestAsBreak(job, stage) ==
    CASE stage = "inner" -> [job EXCEPT !.pc = "transport", !.stopAt = stage]
      [] stage = "response" -> Route([job EXCEPT !.stopAt = stage])
      [] OTHER -> AfterChain([job EXCEPT !.stopAt = stage])

\* what a StopRequestProcessing does in each stage: return
StopRequest(job, stage) == [job EXCEPT !.pc = "finished", !.stopAt = stage]

\* a StopMiddlewareProcessing in the inner stage handled by a return
StopInnerReturn(job) ==
    [job EXCEPT !.pc = "finished", !.smw = job.smw \cup {"inner"},
                !.last = "inner", !.nsmw = job.nsmw + 1]

\* what a StopMiddlewareProcessing does in the inner stage: break
StopInner(job) ==
    [job EXCEPT !.pc = "transport", !.smw = job.smw \cup {"inner"},
                !.last = "inner", !.nsmw = job.nsmw + 1]

StopResponse(job) ==
    Route([job EXCEPT !.smw = job.smw \cup {"response"},
                      !.last = "response", !.nsmw = job.nsmw + 1])

StopException(job) ==
    AfterChain([job EXCEPT !.smw = job.smw \cup {"exception"},
                           !.last = "exception", !.nsmw = job.nsmw + 1])

\* one inner middleware is awaited
InnerMw(j) ==
    /\ jobs[j].pc = "inner"
    /\ \E o \in cfg.mwOut :
         LET job == [jobs[j] EXCEPT !.calls = jobs[j].calls + 1]
         IN jobs' = [jobs EXCEPT ![j] =
              CASE o = "ok" -> IF job.idx < cfg.nInner
                               THEN [job EXCEPT !.idx = job.idx + 1]
                               ELSE [job EXCEPT !.pc = "transport"]
                [] o = "stopMw" -> StopInner(job)
                [] o = "stopReq" -> StopRequest([job EXCEPT !.pre = TRUE], "inner")
                [] OTHER -> EnterHandle([job EXCEPT !.pre = TRUE],
                                        [kind |-> "other", status |-> 0], "except")]
    /\ UNCHANGED <<libVars, cfg, run, now, reqs, readyQueue, delayedHeap, wait, completed, loop,
                   groups, groupMap, pendingQ, hist>>

\* self._session.make_request(request) is entered: a response or an error
Transport(j) ==
    /\ jobs[j].pc = "transport"
    /\ LET job == [jobs[j] EXCEPT !.calls = jobs[j].calls + 1, !.tr = jobs[j].tr + 1]
           r == jobs[j].req
           inside == [job EXCEPT !.pc = "response", !.entered = job.entered + 1]
       IN \/ \E s \in cfg.statuses :
               /\ jobs' = [jobs EXCEPT ![j] =
                             Scoped(inside, AfterTransport([inside EXCEPT !.status = s]))]
               /\ hist' = [hist EXCEPT !.transport[r] = @ + 1,
                                       !.outcomes[r] = Append(@, s)]
          \/ \E e \in cfg.transportErr :
               /\ jobs' = [jobs EXCEPT ![j] =
                             EnterHandle(job, [kind |-> e, status |-> 0], "except")]
               /\ hist' = [hist EXCEPT !.transport[r] = @ + 1,
                                       !.outcomes[r] = Append(@, 0)]
    /\ UNCHANGED <<libVars, cfg, run, now, reqs, readyQueue, delayedHeap, wait, completed, loop,
                   groups, groupMap, pendingQ>>

\* one response middleware is awaited
ResponseMw(j) ==
    /\ jobs[j].pc = "response"
    /\ \E o \in cfg.mwOut :
         LET job == [jobs[j] EXCEPT !.calls = jobs[j].calls + 1]
         IN jobs' = [jobs EXCEPT ![j] = Scoped(job,
              CASE o = "ok" -> IF job.idx < cfg.nResponse
                               THEN [job EXCEPT !.idx = job.idx + 1]
                               ELSE Route(job)
                [] o = "stopMw" -> StopResponse(job)
                [] o = "stopReq" -> StopRequest(job, "response")
                [] OTHER -> EnterHandle(job, [kind |-> "other", status |-> 0], "except"))]
    /\ UNCHANGED <<libVars, cfg, run, now, reqs, readyQueue, delayedHeap, wait, completed, loop,
                   groups, groupMap, pendingQ, hist>>

\* request.callback is awaited
Callback(j) ==
    /\ jobs[j].pc = "callback"
    /\ \E o \in cfg.cbOut :
         LET job == [jobs[j] EXCEPT !.calls = jobs[j].calls + 1, !.cb = jobs[j].cb + 1]
         IN jobs' = [jobs EXCEPT ![j] = Scoped(job,
              IF o = "ok"
              THEN [job EXCEPT !.pc = "finished", !.cbOk = TRUE]
              ELSE EnterHandle(job, [kind |-> "other", status |-> 0], "except"))]
    /\ hist' = [hist EXCEPT !.callback[jobs[j].req] = @ + 1]
    /\ UNCHANGED <<libVars, cfg, run, now, reqs, readyQueue, delayedHeap, wait, completed, loop,
                   groups, groupMap, pendingQ>>

\* one user exception middleware is awaited
ExcMw(j) ==
    /\ jobs[j].pc = "exc"
    /\ cfg.excChain[jobs[j].idx] = "user"
    /\ \E o \in cfg.mwOut :
         LET job == [jobs[j] EXCEPT !.calls = jobs[j].calls + 1,
                                    !.excInv = jobs[j].excInv + 1]
         IN jobs' = [jobs EXCEPT ![j] = Scoped(job,
              CASE o = "ok" -> NextExc(job)
                [] o = "stopMw" -> StopException(job)
                [] o = "stopReq" -> StopRequest(job, "exception")
                [] OTHER -> RaiseInHandler([job EXCEPT !.excErr = job.excErr + 1],
                                           [kind |-> "other", status |-> 0]))]
    /\ UNCHANGED <<libVars, cfg, run, now, reqs, readyQueue, delayedHeap, wait, completed, loop,
                   groups, groupMap, pendingQ, hist>>

\* ------------------------------------------------------- retry middleware
RetryAttempts == Max(0, cfg.retry.attempts)

Min(a, b) == IF a <= b THEN a ELSE b

\* RequestRetryConfig.delay_factory, without the jittered strategy
DelayFactory(backoff, base, maxd, attempt) ==
    CASE backoff = "linear" -> base * attempt
      [] backoff = "exponential" -> Min(maxd, base * (2 ^ attempt))
      [] OTHER -> base

ShouldRetry(exc) ==
    \/ cfg.retry.statuses # {} /\ exc.kind = "http" /\ exc.status \in cfg.retry.statuses
    \/ cfg.retry.exceptions # {} /\ exc.kind \in cfg.retry.exceptions

\* a comparison that lets one retry too many through
MayRetryOneMore(used) == ~(used > RetryAttempts)

\* the attempt counter kept in request.state allows one more retry
MayRetry(used) == ~(used >= RetryAttempts)

\* RetryMiddleware.__call__ up to asyncio.sleep(self._delay)
RetryMw(j) ==
    /\ jobs[j].pc = "exc"
    /\ cfg.excChain[jobs[j].idx] = "retry"
    /\ LET job == [jobs[j] EXCEPT !.calls = jobs[j].calls + 1,
                                  !.excInv = jobs[j].excInv + 1]
           r == job.req
       IN IF cfg.retry.enabled /\ ShouldRetry(job.exc) /\ MayRetry(reqs[r].retries)
          THEN /\ reqs' = [reqs EXCEPT ![r].retries = reqs[r].retries + 1]
               /\ jobs' = [jobs EXCEPT ![j] =
                             [job EXCEPT !.pc = "retrySleep", !.wake = now + cfg.retry.delay]]
          ELSE /\ jobs' = [jobs EXCEPT ![j] = Scoped(job, NextExc(job))]
               /\ UNCHANGED reqs
    /\ UNCHANGED <<libVars, cfg, run, now, readyQueue, delayedHeap, wait, completed, loop,
                   groups, groupMap, pendingQ, hist>>

\* after the sleep: send_request(request), then StopRequestProcessing when
\* the middleware is configured to stop
RetrySend(j) ==
    /\ jobs[j].pc = "retrySleep"
    /\ now >= jobs[j].wake
    /\ readyQueue' = SenderReady(reqs, jobs[j].req)
    /\ delayedHeap' = SenderHeap(reqs, jobs[j].req)
    /\ hist' = [hist EXCEPT !.resent[jobs[j].req] = @ + 1]
    /\ jobs' = [jobs EXCEPT ![j] = Scoped(jobs[j],
                  IF cfg.retry.stop
                  THEN StopRequest(jobs[j], "exception")
                  ELSE NextExc([jobs[j] EXCEPT !.pc = "exc"]))]
    /\ UNCHANGED <<libVars, cfg, run, now, reqs, wait, completed, loop, groups, groupMap, pendingQ>>

\* request.errback is awaited; its failure is raised as an ExceptionGroup
Errback(j) ==
    /\ jobs[j].pc = "errback"
    /\ \E o \in cfg.ebOut :
         LET job == [jobs[j] EXCEPT !.calls = jobs[j].calls + 1, !.eb = jobs[j].eb + 1]
         IN jobs' = [jobs EXCEPT ![j] = Scoped(job,
              IF o = "ok"
              THEN [job EXCEPT !.pc = "finished"]
              ELSE RaiseInHandler(job, [kind |-> "group", status |-> 0]))]
    /\ hist' = [hist EXCEPT !.errback[jobs[j].req] = @ + 1]
    /\ UNCHANGED <<libVars, cfg, run, now, reqs, readyQueue, delayedHeap, wait, completed, loop,
                   groups, groupMap, pendingQ>>

\* what is left of a job that the scheduler has dropped: its request, and
\* whether an inner middleware ended it before the transport
ClosedJob(job) == [NewJob(job.req, 0) EXCEPT !.pc = "closed", !.pre = job.pre]

\* the worker coroutine has returned: the job leaves the scheduler, which
\* starts pending jobs in the freed slots
JobDone(j) ==
    /\ jobs[j].pc = "finished"
    /\ LET res == StartPending([jobs EXCEPT ![j] = ClosedJob(jobs[j])], pendingQ)
       IN /\ jobs' = res.jobs
          /\ pendingQ' = res.pendingQ
    /\ UNCHANGED <<libVars, cfg, run, now, reqs, readyQueue, delayedHeap, wait, completed, loop,
                   groups, groupMap, hist>>

\* ------------------------------------------------------------------ Next
Next ==
    \/ Submit
    \/ Wait
    \/ Tick
    \/ LoopTop
    \/ LoopGet
    \/ LoopTimeout
    \/ LoopOuter
    \/ LoopSchedule
    \/ LoopWake
    \/ LoopGroupPut
    \/ \E g \in DOMAIN groups : GroupGet(g)
    \/ \E g \in DOMAIN groups : GroupIdle(g)
    \/ \E g \in DOMAIN groups : GroupTaskDone(g)
    \/ \E g \in DOMAIN groups : GroupSchedule(g)
    \/ \E g \in DOMAIN groups : GroupWake(g)
    \/ \E j \in DOMAIN jobs : SpawnResume(j)
    \/ \E j \in DOMAIN jobs : InnerMw(j)
    \/ \E j \in DOMAIN jobs : Transport(j)
    \/ \E j \in DOMAIN jobs : ResponseMw(j)
    \/ \E j \in DOMAIN jobs : Callback(j)
    \/ \E j \in DOMAIN jobs : ExcMw(j)
    \/ \E j \in DOMAIN jobs : RetryMw(j)
    \/ \E j \in DOMAIN jobs : RetrySend(j)
    \/ \E j \in DOMAIN jobs : Errback(j)
    \/ \E j \in DOMAIN jobs : JobDone(j)

Spec == Init /\ [][Next]_vars

\* the two-queue scheduler on its own
NextSched ==
    \/ Submit
    \/ Wait
    \/ Tick
    \/ LoopTop
    \/ LoopGet
    \/ LoopTimeout
    \/ LoopSchedule
    \/ LoopWake
    \/ \E j \in DOMAIN jobs : Transport(j)
    \/ \E j \in DOMAIN jobs : Callback(j)
    \/ \E j \in DOMAIN jobs : JobDone(j)

SpecSched == InitWith(SchedConfigs) /\ [][NextSched]_vars

\* the delayed heap and the timeout of the loop's wait
SpecDelay == InitWith({CfgDelay}) /\ [][NextSched]_vars

\* the sender in front of the two queues
SpecSend == InitWith({CfgSend}) /\ [][NextSched]_vars

\* the rate limiter and the worker pool
NextRate ==
    \/ Submit
    \/ Wait
    \/ Tick
    \/ LoopTop
    \/ LoopGet
    \/ LoopTimeout
    \/ LoopSchedule
    \/ LoopWake
    \/ LoopGroupPut
    \/ \E g \in DOMAIN groups : GroupGet(g)
    \/ \E g \in DOMAIN groups : GroupIdle(g)
    \/ \E g \in DOMAIN groups : GroupTaskDone(g)
    \/ \E g \in DOMAIN groups : GroupSchedule(g)
    \/ \E g \in DOMAIN groups : GroupWake(g)
    \/ \E j \in DOMAIN jobs : SpawnResume(j)
    \/ \E j \in DOMAIN jobs : Transport(j)
    \/ \E j \in DOMAIN jobs : Callback(j)
    \/ \E j \in DOMAIN jobs : JobDone(j)

SpecRate == InitWith(RateConfigs) /\ [][NextRate]_vars

\* one rate-limit group fed by the dispatch loop
NextFifo ==
    \/ Submit
    \/ Wait
    \/ Tick
    \/ LoopTop
    \/ LoopGet
    \/ LoopTimeout
    \/ LoopGroupPut
    \/ \E g \in DOMAIN groups : GroupGet(g)
    \/ \E g \in DOMAIN groups : GroupSchedule(g)
    \/ \E g \in DOMAIN groups : GroupWake(g)
    \/ \E j \in DOMAIN jobs : Transport(j)
    \/ \E j \in DOMAIN jobs : JobDone(j)

SpecFifo == InitWith({CfgFifo}) /\ [][NextFifo]_vars

\* the hand-off to the rate limiter and the schedule call, either failing
NextFail ==
    \/ Submit
    \/ Wait
    \/ Tick
    \/ LoopTop
    \/ LoopGet
    \/ LoopTimeout
    \/ LoopSchedule
    \/ LoopWake
    \/ LoopGroupPut
    \/ \E g \in DOMAIN groups : GroupGet(g)
    \/ \E g \in DOMAIN groups : GroupSchedule(g)
    \/ \E g \in DOMAIN groups : GroupWake(g)
    \/ \E j \in DOMAIN jobs : Transport(j)
    \/ \E j \in DOMAIN jobs : JobDone(j)

SpecFail == InitWith({CfgFail, CfgFailDirect}) /\ [][NextFail]_vars

\* the worker and its middleware stages, fed by the dispatch loop while the
\* producers are running
NextWorker ==
    \/ Submit
    \/ LoopTop
    \/ LoopGet
    \/ LoopOuter
    \/ LoopSchedule
    \/ LoopWake
    \/ \E j \in DOMAIN jobs : InnerMw(j)
    \/ \E j \in DOMAIN jobs : Transport(j)
    \/ \E j \in DOMAIN jobs : ResponseMw(j)
    \/ \E j \in DOMAIN jobs : Callback(j)
    \/ \E j \in DOMAIN jobs : ExcMw(j)
    \/ \E j \in DOMAIN jobs : Errback(j)
    \/ \E j \in DOMAIN jobs : JobDone(j)

SpecWorker == InitWith(WorkerConfigs) /\ [][NextWorker]_vars

\* the retry middleware in the exception chain
NextRetry ==
    \/ Submit
    \/ Wait
    \/ Tick
    \/ LoopTop
    \/ LoopGet
    \/ LoopTimeout
    \/ LoopSchedule
    \/ LoopWake
    \/ \E j \in DOMAIN jobs : Transport(j)
    \/ \E j \in DOMAIN jobs : Callback(j)
    \/ \E j \in DOMAIN jobs : ExcMw(j)
    \/ \E j \in DOMAIN jobs : RetryMw(j)
    \/ \E j \in DOMAIN jobs : RetrySend(j)
    \/ \E j \in DOMAIN jobs : Errback(j)
    \/ \E j \in DOMAIN jobs : JobDone(j)

SpecRetry == InitWith(RetryConfigs) /\ [][NextRetry]_vars

\* the ready queue filled by the producers and emptied by the dispatch loop
NextTie ==
    \/ Submit
    \/ LoopTop
    \/ LoopGet
    \/ LoopSchedule
    \/ LoopWake
    \/ \E j \in DOMAIN jobs : Transport(j)
    \/ \E j \in DOMAIN jobs : Callback(j)
    \/ \E j \in DOMAIN jobs : JobDone(j)

SpecTie == InitWith(TieConfigs) /\ [][NextTie]_vars

\* ------------------------------------------------------- MiddlewareHolder
Stages == {"outer", "inner", "exception", "response"}

\* the priorities of the registrations: the default of the decorator, the
\* default of add(), and one in between
Priorities == {0, 50, 100}

\* an insertion that puts the new pair before its equals
InsertFirst(sorted, item) ==
    LET k == Cardinality({i \in DOMAIN sorted : sorted[i].priority < item.priority})
    IN SubSeq(sorted, 1, k) \o <<item>> \o SubSeq(sorted, k + 1, Len(sorted))

\* one step of the stable list.sort(key=priority): the pair goes behind
\* every pair whose key is not greater than its own
InsertStable(sorted, item) ==
    LET k == Cardinality({i \in DOMAIN sorted : sorted[i].priority <= item.priority})
    IN SubSeq(sorted, 1, k) \o <<item>> \o SubSeq(sorted, k + 1, Len(sorted))

\* bucket.sort(key=lambda item: item[0])
RECURSIVE SortBucket(_)
SortBucket(bucket) ==
    IF bucket = << >> THEN << >>
    ELSE InsertStable(SortBucket(SubSeq(bucket, 1, Len(bucket) - 1)), bucket[Len(bucket)])

\* _get_bucket
GetBucket(h, stage) == h[stage]

\* MiddlewareHolder.add(stage, *middlewares, priority): append a pair per
\* middleware, then sort; middlewares are numbered in the order of their
\* registration
HolderAdd(stage, n, priority) ==
    LET first == Len(registered)
        pairs == [i \in 1..n |-> [priority |-> priority, mw |-> first + i]]
    IN /\ holder' = [holder EXCEPT
                        ![stage] = SortBucket(GetBucket(holder, stage) \o pairs)]
       /\ registered' = registered \o
                        [i \in 1..n |-> [stage |-> stage, priority |-> priority]]

\* the properties outer / inner / exception / response: the middlewares of
\* the bucket in its order
Iterate(h, stage) == [i \in DOMAIN GetBucket(h, stage) |-> GetBucket(h, stage)[i].mw]

\* holder.add(...) with one or two middlewares
Add ==
    \E stage \in Stages, n \in 1..2, priority \in Priorities :
        /\ Len(registered) + n <= NReg
        /\ HolderAdd(stage, n, priority)
        /\ UNCHANGED <<disp, adapt, cfg, run, now, reqs, readyQueue, delayedHeap, wait, completed,
                       loop, groups, groupMap, jobs, pendingQ, hist>>

\* @holder(stage, priority=...) applied to a function
Decorator ==
    \E stage \in Stages, priority \in Priorities :
        /\ Len(registered) + 1 <= NReg
        /\ HolderAdd(stage, 1, priority)
        /\ UNCHANGED <<disp, adapt, cfg, run, now, reqs, readyQueue, delayedHeap, wait, completed,
                       loop, groups, groupMap, jobs, pendingQ, hist>>

NextHolder ==
    \/ Add
    \/ Decorator

\* registrations on a holder, the engine not started
SpecHolder == InitWith({BaseCfg}) /\ [][NextHolder]_vars

\* ----------------------------------------------------- PipelineDispatcher
\* what a middleware or a pipeline called with an item may do
StepOuts == {"ok", "stopMw", "stopItem", "error"}

\* the dispatchers: a container of every size without global middlewares,
\* an item type without container (strict or not), and one container
\* behind one to NGlobal global middlewares
Shapes ==
    { [NoShape EXCEPT !.pre = a, !.pipe = b, !.post = c, !.registered = TRUE,
                      !.outs = StepOuts] : a \in 0..NStep, b \in 0..NStep, c \in 0..NStep }
    \cup { [NoShape EXCEPT !.strict = t] : t \in BOOLEAN }
    \cup { [NoShape EXCEPT !.pre = 1, !.pipe = 1, !.post = 1, !.registered = TRUE,
                           !.globals = g, !.outs = {"ok"}] : g \in 1..NGlobal }

\* a handler that wraps the middlewares in the reverse order
WrapOrderReversed(n) == [pos \in 1..n |-> pos]

\* _build_handler: each registered global middleware wraps the handler built
\* so far; the middlewares from the outermost to the innermost
WrapOrder(n) == [pos \in 1..n |-> n + 1 - pos]

\* a step that leaves the item as it was given
KeepItem(item, s, i) == item

\* the item a step returns: the item it was given, marked by the step
Returned(item, s, i) == Append(item, [s |-> s, i |-> i])

\* the call of the step is recorded with the item it was given
Audited(d, s, i, o) ==
    [d EXCEPT !.audit = Append(d.audit, [s |-> s, i |-> i, o |-> o, got |-> d.item])]

\* the handler called returns x: to the put_item caller, or to the global
\* middleware that called call_next
HandlerReturn(d, x) ==
    IF d.stack = << >>
    THEN [d EXCEPT !.pc = "done", !.result = x]
    ELSE [d EXCEPT !.pc = "global", !.stack[Len(d.stack)].res = x]

\* an exception other than StopItemProcessing leaves every frame
HandlerRaise(d, e) == [d EXCEPT !.pc = "done", !.stack = << >>, !.raised = e]

PostStage(d) ==
    IF d.shape.post > 0 THEN [d EXCEPT !.pc = "post", !.idx = 1]
    ELSE HandlerReturn(d, d.item)

PipeStage(d) ==
    IF d.shape.pipe > 0 THEN [d EXCEPT !.pc = "pipe", !.idx = 1]
    ELSE PostStage(d)

\* a pre stage whose stop ends the call
PreStopReturns(d) == HandlerReturn(d, d.item)

\* the break out of the pre-middleware loop
PreStop(d) == PipeStage(d)

\* _put_item(item) up to its first await; the audit is that of the latest run
PutItemBody(d, item) ==
    LET d1 == [d EXCEPT !.item = item, !.runs = d.runs + 1, !.audit = << >>]
    IN IF ~d.shape.registered
       THEN IF d.shape.strict THEN HandlerRaise(d1, "PipelineException")
            ELSE HandlerReturn(d1, item)
       ELSE IF d.shape.pre > 0 THEN [d1 EXCEPT !.pc = "pre", !.idx = 1]
            ELSE PipeStage(d1)

\* the handler at position pos of the wrap order is called with item; behind
\* the innermost global middleware comes _put_item
CallHandler(d, pos, item) ==
    IF pos > d.shape.globals
    THEN PutItemBody(d, item)
    ELSE LET g == WrapOrder(d.shape.globals)[pos]
         IN [d EXCEPT
                !.pc = "global",
                !.stack = Append(d.stack, [mw |-> g, pos |-> pos, calls |-> 0,
                                           arg |-> item, res |-> item]),
                !.entered[g] = d.entered[g] + 1]

\* PipelineDispatcher.put_item(item) is called
PutItem ==
    /\ disp.pc = "idle"
    /\ disp' = CallHandler(disp, 1, << >>)
    /\ UNCHANGED <<holder, registered, adapt, cfg, run, now, reqs, readyQueue, delayedHeap, wait,
                   completed, loop, groups, groupMap, jobs, pendingQ, hist>>

\* the running global middleware awaits call_next(item)
GlobalCall ==
    /\ disp.pc = "global"
    /\ LET top == disp.stack[Len(disp.stack)]
       IN /\ top.calls < NCall
          /\ disp' = CallHandler(
                 [disp EXCEPT !.stack[Len(disp.stack)].calls = top.calls + 1,
                              !.ncalls[top.mw] = disp.ncalls[top.mw] + 1],
                 top.pos + 1, top.arg)
    /\ UNCHANGED <<holder, registered, adapt, cfg, run, now, reqs, readyQueue, delayedHeap, wait,
                   completed, loop, groups, groupMap, jobs, pendingQ, hist>>

\* the running global middleware returns what call_next gave it last (its
\* own argument when it never called), or raises StopItemProcessing, which
\* put_item turns into the return of the item it was called with
GlobalReturn ==
    /\ disp.pc = "global"
    /\ LET top == disp.stack[Len(disp.stack)]
           rest == [disp EXCEPT !.stack = SubSeq(disp.stack, 1, Len(disp.stack) - 1)]
       IN \E o \in {"ok", "stopItem"} :
            disp' = IF o = "ok" THEN HandlerReturn(rest, top.res)
                    ELSE [disp EXCEPT !.pc = "done", !.stack = << >>, !.result = << >>,
                                      !.raised = "stopped"]
    /\ UNCHANGED <<holder, registered, adapt, cfg, run, now, reqs, readyQueue, delayedHeap, wait,
                   completed, loop, groups, groupMap, jobs, pendingQ, hist>>

\* one pre-middleware is awaited
PreMw ==
    /\ disp.pc = "pre"
    /\ \E o \in disp.shape.outs :
         LET d == Audited(disp, "pre", disp.idx, o)
             r == [d EXCEPT !.item = Returned(d.item, "pre", d.idx)]
         IN disp' = CASE o = "ok" -> IF d.idx < d.shape.pre
                                     THEN [r EXCEPT !.idx = d.idx + 1]
                                     ELSE PipeStage(r)
                      [] o = "stopMw" -> PreStop(d)
                      [] o = "stopItem" -> HandlerReturn(d, d.item)
                      [] OTHER -> HandlerRaise(d, "error")
    /\ UNCHANGED <<holder, registered, adapt, cfg, run, now, reqs, readyQueue, delayedHeap, wait,
                   completed, loop, groups, groupMap, jobs, pendingQ, hist>>

\* pipeline.put_item of one pipeline is awaited
PipePut ==
    /\ disp.pc = "pipe"
    /\ \E o \in disp.shape.outs \cap {"ok", "error"} :
         LET d == Audited(disp, "pipe", disp.idx, o)
             r == [d EXCEPT !.item = Returned(d.item, "pipe", d.idx)]
         IN disp' = IF o = "ok"
                    THEN IF d.idx < d.shape.pipe THEN [r EXCEPT !.idx = d.idx + 1]
                         ELSE PostStage(r)
                    ELSE HandlerRaise(d, "error")
    /\ UNCHANGED <<holder, registered, adapt, cfg, run, now, reqs, readyQueue, delayedHeap, wait,
                   completed, loop, groups, groupMap, jobs, pendingQ, hist>>

\* one post-middleware is awaited
PostMw ==
    /\ disp.pc = "post"
    /\ \E o \in disp.shape.outs :
         LET d == Audited(disp, "post", disp.idx, o)
             r == [d EXCEPT !.item = Returned(d.item, "post", d.idx)]
         IN disp' = CASE o = "ok" -> IF d.idx < d.shape.post
                                     THEN [r EXCEPT !.idx = d.idx + 1]
                                     ELSE HandlerReturn(r, r.item)
                      [] o = "stopMw" -> HandlerReturn(d, d.item)
                      [] o = "stopItem" -> HandlerReturn(d, d.item)
                      [] OTHER -> HandlerRaise(d, "error")
    /\ UNCHANGED <<holder, registered, adapt, cfg, run, now, reqs, readyQueue, delayedHeap, wait,
                   completed, loop, groups, groupMap, jobs, pendingQ, hist>>

NextPipe ==
    \/ PutItem
    \/ GlobalCall
    \/ GlobalReturn
    \/ PreMw
    \/ PipePut
    \/ PostMw

\* one put_item call on each of the dispatchers
InitPipe ==
    /\ InitEngine({BaseCfg})
    /\ holder = NewHolder /\ registered = << >> /\ adapt = NewAdapt(AdaptiveCfg)
    /\ \E shape \in Shapes : disp = NewDisp(shape)

SpecPipe == InitPipe /\ [][NextPipe]_vars

\* ------------------------------------------------------- AdaptiveStrategy
\* the outcomes reported: a success or a failure matching a trigger,
\* without Retry-After or with one below, inside or above the bounds
Outcomes ==
    { [trigger |-> t, has |-> FALSE, retryAfter |-> 0] : t \in BOOLEAN }
    \cup { [trigger |-> TRUE, has |-> TRUE, retryAfter |-> ra] : ra \in {1, 4, 9} }

\* AdaptiveMetrics.record_success without the latency average
RecordSuccess(m) ==
    [m EXCEPT !.success = m.success + 1, !.failure = 0, !.total = m.total + 1]

\* a record_failure that leaves the success counter alone
RecordFailureOnly(m) ==
    [m EXCEPT !.failure = m.failure + 1, !.total = m.total + 1]

\* AdaptiveMetrics.record_failure without the latency average
RecordFailure(m) ==
    [m EXCEPT !.failure = m.failure + 1, !.success = 0, !.total = m.total + 1]

\* a decision that lowers the interval on the success that reaches the
\* threshold only
DecideAtThreshold(c, m, current, outcome) ==
    IF c.respect /\ outcome.has THEN Min(c.max, outcome.retryAfter)
    ELSE IF outcome.trigger THEN Min(c.max, current * c.factor)
    ELSE IF m.success = c.threshold THEN Max(c.min, current - c.step)
    ELSE current

\* the decision of calculate_interval, m being the metrics of the group
\* with the outcome recorded
Decide(c, m, current, outcome) ==
    IF c.respect /\ outcome.has THEN Min(c.max, outcome.retryAfter)
    ELSE IF outcome.trigger THEN Min(c.max, current * c.factor)
    ELSE IF m.success >= c.threshold THEN Max(c.min, current - c.step)
    ELSE current

\* AdaptiveStrategy.calculate_interval(group_key, current_interval, outcome)
CalculateInterval ==
    \E key \in Hosts, current \in adapt.c.min..adapt.c.max, outcome \in Outcomes :
        /\ adapt.metrics[key].total < NOut
        /\ LET m == IF outcome.trigger THEN RecordFailure(adapt.metrics[key])
                    ELSE RecordSuccess(adapt.metrics[key])
           IN adapt' = [adapt EXCEPT
                  !.metrics[key] = m,
                  !.log[key] = Append(@, IF outcome.trigger THEN "f" ELSE "s"),
                  !.last = [key |-> key, current |-> current, outcome |-> outcome,
                            next |-> Decide(adapt.c, m, current, outcome)]]
        /\ UNCHANGED <<holder, registered, disp, cfg, run, now, reqs, readyQueue,
                       delayedHeap, wait, completed, loop, groups, groupMap, jobs,
                       pendingQ, hist>>

\* AdaptiveStrategy.reset_metrics(group_key)
ResetMetrics ==
    \E key \in Hosts :
        /\ adapt.log[key] # << >>
        /\ adapt' = [adapt EXCEPT !.metrics[key] = NewMetrics, !.log[key] = << >>,
                                  !.last = NewAdapt(adapt.c).last]
        /\ UNCHANGED <<holder, registered, disp, cfg, run, now, reqs, readyQueue,
                       delayedHeap, wait, completed, loop, groups, groupMap, jobs,
                       pendingQ, hist>>

NextAdapt ==
    \/ CalculateInterval
    \/ ResetMetrics

InitAdapt ==
    /\ InitEngine({BaseCfg})
    /\ holder = NewHolder /\ registered = << >> /\ disp = NewDisp(NoShape)
    /\ \E r \in BOOLEAN : adapt = NewAdapt([AdaptiveCfg EXCEPT !.respect = r])

\* calls of one strategy for two groups, respect_retry_after on or off
SpecAdapt == InitAdapt /\ [][NextAdapt]_vars

\* ------------------------------------------------- where a request sits
InReady(r) == \E i \in DOMAIN readyQueue : readyQueue[i].request = r
InHeap(r) == \E i \in DOMAIN delayedHeap : delayedHeap[i].request = r
LoopHolds(r) == loop.pc \in {"outer", "limit"} /\ loop.pr.request = r
GroupQueued(r) ==
    \E g \in DOMAIN groups : \E i \in DOMAIN groups[g].queue :
        groups[g].queue[i].request = r
GroupHolds(r) ==
    \E g \in DOMAIN groups : groups[g].pc = "sched" /\ groups[g].pr.request = r
JobsOf(r) == {j \in DOMAIN jobs : jobs[j].req = r}
LiveJobsOf(r) == {j \in JobsOf(r) : jobs[j].pc # "closed"}

\* the request is nowhere in the engine any more
Gone(r) ==
    /\ reqs[r].st = "sent"
    /\ ~InReady(r) /\ ~InHeap(r) /\ ~LoopHolds(r)
    /\ ~GroupQueued(r) /\ ~GroupHolds(r)
    /\ LiveJobsOf(r) = {}

\* ---------------------------------------------------------------- claims

\* C1: whenever the dispatch loop dequeues an envelope, no request with a
\* strictly lower request.priority is left behind in the ready queue, so of
\* two requests that are ready together the lower priority is taken first.
C1_LowerPriorityFirst ==
    [][(loop.pc = "get" /\ loop'.pc \notin {"get", "top"}) =>
         \A i \in DOMAIN readyQueue :
             reqs[readyQueue[i].request].priority >= reqs[loop'.pr.request].priority]_vars

\* a request that has left the delayed heap, or never was on it
PastHeap(r) ==
    \/ InReady(r) \/ LoopHolds(r) \/ GroupQueued(r) \/ GroupHolds(r)
    \/ JobsOf(r) # {}
    \/ hist.transport[r] > 0

\* C2: a request sent with delay d > 0 sits on the delayed heap under the
\* due time submission + d while its delay is set, and it is in the ready
\* queue, with the dispatch loop, in the pool or at the transport only at
\* clock readings at or after that due time.
C2_DelayRespected ==
    \A r \in Reqs : hist.delay[r] > 0 =>
        /\ \A i \in DOMAIN delayedHeap :
               delayedHeap[i].request = r =>
                   delayedHeap[i].priority = hist.sub[r] + hist.delay[r]
        /\ reqs[r].delay # 0 => InHeap(r) /\ ~PastHeap(r)
        /\ PastHeap(r) => now >= hist.sub[r] + hist.delay[r]

\* a delayed request went all the way to the transport
C2_Witness ==
    \E r \in Reqs : hist.delay[r] > 0 /\ hist.sub[r] > 0 /\ hist.transport[r] > 0

QueueCount(q, r) == Cardinality({i \in DOMAIN q : q[i].request = r})

GroupQueueCount(r) ==
    Cardinality({p \in UNION {{<<g, i>> : i \in DOMAIN groups[g].queue} : g \in DOMAIN groups} :
                    groups[p[1]].queue[p[2]].request = r})

GroupHoldCount(r) ==
    Cardinality({g \in DOMAIN groups : groups[g].pc = "sched" /\ groups[g].pr.request = r})

\* the places where the request waits between the sender and the pool
Places(r) ==
    QueueCount(readyQueue, r) + QueueCount(delayedHeap, r)
    + (IF LoopHolds(r) THEN 1 ELSE 0) + GroupQueueCount(r) + GroupHoldCount(r)

\* jobs of the request that have not reached the transport call yet
JobsBefore(r) ==
    Cardinality({j \in JobsOf(r) :
                    jobs[j].tr = 0 /\ jobs[j].pc \in {"blocked", "pending", "inner", "transport"}})

\* jobs of the request ended by an inner middleware (StopRequestProcessing
\* or an error) before the transport
PreFailed(r) == Cardinality({j \in JobsOf(r) : jobs[j].pre})

Running(job) ==
    job.pc \in {"inner", "transport", "response", "callback", "exc", "retrySleep", "errback"}

\* C5: never more than concurrent_requests workers run, never more than
\* pending_requests jobs are queued in the pool, and a hand-off made while
\* both limits are reached waits: its job is neither started nor queued,
\* and it stays so as long as the pending queue is full.
C5_PoolBounds ==
    /\ [](/\ Cardinality({j \in DOMAIN jobs : Running(jobs[j])}) <= cfg.limit
          /\ Len(pendingQ) <= cfg.pending
          /\ \A j \in DOMAIN jobs :
                jobs[j].pc = "pending" <=> \E i \in DOMAIN pendingQ : pendingQ[i] = j)
    /\ [][/\ (/\ Len(jobs') = Len(jobs) + 1
               /\ Cardinality({j \in DOMAIN jobs : Running(jobs[j])
                                   \/ jobs[j].pc = "finished"}) >= cfg.limit
               /\ Len(pendingQ) >= cfg.pending)
              => (jobs'[Len(jobs')].pc = "blocked" /\ pendingQ' = pendingQ)
          /\ \A j \in DOMAIN jobs :
                (jobs[j].pc = "blocked" /\ Len(pendingQ) >= cfg.pending)
                    => jobs'[j].pc = "blocked"]_vars

\* a hand-off by a group worker is waiting on the full pool
C5_Witness ==
    \E j \in DOMAIN jobs :
        /\ jobs[j].pc = "blocked" /\ jobs[j].spawner # 0
        /\ Cardinality({k \in DOMAIN jobs : Running(jobs[k])}) = cfg.limit
        /\ Len(pendingQ) = cfg.pending

\* the failure is one the retry configuration names
Matching(exc) ==
    \/ exc.kind = "http" /\ exc.status \in cfg.retry.statuses
    \/ exc.kind \in cfg.retry.exceptions

\* C6: the attempt counter of a request and the number of its
\* re-submissions by the retry middleware never exceed max(0, attempts),
\* and when the middleware sees a matching failure with the counter at
\* attempts it leaves the counter alone, does not go to sleep and does not
\* call the sender.
C6_RetryBounded ==
    /\ [](\A r \in Reqs :
             /\ reqs[r].retries <= Max(0, cfg.retry.attempts)
             /\ hist.resent[r] <= reqs[r].retries)
    /\ [][\A j \in DOMAIN jobs :
             (/\ jobs[j].pc = "exc" /\ cfg.excChain[jobs[j].idx] = "retry"
              /\ jobs'[j].excInv = jobs[j].excInv + 1
              /\ Matching(jobs[j].exc)
              /\ reqs[jobs[j].req].retries >= Max(0, cfg.retry.attempts))
             => /\ reqs' = reqs
                /\ hist'.resent = hist.resent
                /\ readyQueue' = readyQueue /\ delayedHeap' = delayedHeap
                /\ jobs'[j].pc # "retrySleep"]_vars

\* a request was re-submitted attempts times, failed again with a matching
\* failure and was passed on by the retry middleware to the errback
C6_Witness ==
    \E j \in DOMAIN jobs :
        /\ cfg.retry.enabled /\ cfg.retry.stop /\ cfg.retry.attempts > 0
        /\ Matching(jobs[j].exc) /\ jobs[j].chain = "done" /\ jobs[j].eb = 1
        /\ reqs[jobs[j].req].retries = cfg.retry.attempts
        /\ hist.resent[jobs[j].req] = cfg.retry.attempts

\* C7: with retries enabled and stop_processing on, for a request with
\* raise_for_status, a callback and an errback: when its transport attempts
\* answered a matching status k <= attempts times and then 200, the callback
\* is invoked once and the errback never; when they all answered a matching
\* status, there are attempts + 1 of them before the errback is invoked, and
\* the errback is invoked once.
C7_RetryOutcome ==
    (cfg.retry.enabled /\ cfg.retry.stop) =>
        \A r \in Reqs :
            (reqs[r].st = "sent" /\ reqs[r].rfs /\ reqs[r].cb /\ reqs[r].eb) =>
                LET o == hist.outcomes[r]
                    n == Max(0, cfg.retry.attempts)
                IN /\ (/\ Len(o) \in 1..(n + 1) /\ o[Len(o)] = 200
                       /\ \A i \in 1..(Len(o) - 1) : o[i] \in cfg.retry.statuses)
                      => /\ hist.callback[r] <= 1 /\ hist.errback[r] = 0
                         /\ Gone(r) => hist.callback[r] = 1
                   /\ (\A i \in DOMAIN o : o[i] \in cfg.retry.statuses)
                      => /\ Len(o) <= n + 1 /\ hist.callback[r] = 0
                         /\ hist.errback[r] >= 1 => Len(o) = n + 1
                         /\ hist.errback[r] <= 1
                         /\ Gone(r) => (Len(o) = n + 1 /\ hist.errback[r] = 1)

\* C8: once a middleware of a job has raised StopRequestProcessing, nothing
\* is called for that job any more (no middleware, transport, callback or
\* errback): the worker ends and all that happens to the job is that the
\* scheduler drops it; raised in the inner stage there has been
\* no transport call, and raised in the inner or response stage there has
\* been no callback, no exception middleware and no errback.
C8_StopRequest ==
    /\ [](\A j \in DOMAIN jobs : jobs[j].stopAt # "none" =>
             /\ jobs[j].pc \in {"finished", "closed"}
             /\ jobs[j].stopAt = "inner" => jobs[j].tr = 0
             /\ jobs[j].stopAt \in {"inner", "response"} =>
                    (jobs[j].cb = 0 /\ jobs[j].excInv = 0 /\ jobs[j].eb = 0))
    /\ [][\A j \in DOMAIN jobs : jobs[j].stopAt # "none" =>
             \/ jobs'[j] = jobs[j]
             \/ jobs'[j] = ClosedJob(jobs[j])]_vars

\* an exception middleware stopped a request that has an errback, and the
\* worker is over without the errback
C8_Witness ==
    \E j \in DOMAIN jobs :
        /\ jobs[j].stopAt = "exception" /\ jobs[j].pc = "finished"
        /\ reqs[jobs[j].req].eb /\ jobs[j].eb = 0 /\ jobs[j].tr = 1

C10_Routing ==
    \A j \in DOMAIN jobs : jobs[j].routed =>
        LET r == jobs[j].req
        IN IF jobs[j].status < 400 \/ ~reqs[r].rfs
           THEN /\ reqs[r].cb => (jobs[j].pc = "callback" \/ jobs[j].cb = 1)
                /\ jobs[j].cbOk => (jobs[j].excInv = 0 /\ jobs[j].eb = 0)
                /\ ~reqs[r].cb => (jobs[j].cb = 0 /\ jobs[j].excInv = 0 /\ jobs[j].eb = 0)
           ELSE /\ jobs[j].cb = 0 /\ ~jobs[j].cbOk
                /\ jobs[j].hexc = [kind |-> "http", status |-> jobs[j].status]
                /\ cfg.excChain # << >> => (jobs[j].pc = "exc" \/ jobs[j].excInv >= 1)
                /\ (jobs[j].eb >= 1 \/ jobs[j].pc = "errback") =>
                       (cfg.excChain = << >> \/ jobs[j].excInv >= 1)
                /\ (/\ jobs[j].pc \in {"finished", "closed"} /\ reqs[r].eb
                    /\ jobs[j].stopAt = "none" /\ jobs[j].excErr = 0)
                   => jobs[j].eb >= 1

\* a response with status 500 and raise_for_status went through both
\* exception middlewares to the errback, without the callback
C10_Witness ==
    \E j \in DOMAIN jobs :
        /\ jobs[j].routed /\ jobs[j].status >= 400 /\ reqs[jobs[j].req].rfs
        /\ reqs[jobs[j].req].cb /\ jobs[j].cb = 0
        /\ jobs[j].hexc.kind = "http" /\ jobs[j].excInv = 2 /\ jobs[j].eb = 1

\* C11: whenever the dispatch loop dequeues an envelope, no envelope of the
\* same priority that was put into the ready queue earlier is left behind
\* in it (requests are numbered in the order of their submission, and here
\* none is delayed or re-submitted).
C11_TiesFifo ==
    [][(loop.pc = "get" /\ loop'.pc \notin {"get", "top"}) =>
         \A i \in DOMAIN readyQueue :
             readyQueue[i].priority = loop'.pr.priority
                 => readyQueue[i].request >= loop'.pr.request]_vars

\* the worker of the group has not left its loop
GroupLive(g) == groups[g].pc \notin {"exited", "closed"}

\* C12: the map holds, per key, nothing or one group of that key whose
\* worker is running, and there is no other running group of the key; an
\* entry is removed only in a step in which the group it names terminates
\* (its worker leaves the loop), and the entry of a running group is never
\* removed or replaced, whatever older group of the key finishes.
C12_GroupMap ==
    /\ [](\A h \in Hosts :
             /\ groupMap[h] # 0 =>
                    (/\ groupMap[h] \in DOMAIN groups
                     /\ groups[groupMap[h]].key = h /\ GroupLive(groupMap[h]))
             /\ \A g \in DOMAIN groups :
                    (groups[g].key = h /\ GroupLive(g)) => groupMap[h] = g)
    /\ [][\A h \in Hosts :
             (groupMap[h] # 0 /\ groupMap'[h] # groupMap[h]) =>
                 /\ groupMap'[h] = 0
                 /\ GroupLive(groupMap[h])
                 /\ groups'[groupMap[h]].pc = "exited"]_vars

\* the task-done callback of an idled-out group ran when a replacement
\* group of its key was in the map, and the replacement is still there
C12_Witness ==
    \E g1, g2 \in DOMAIN groups :
        /\ g1 # g2 /\ groups[g1].key = groups[g2].key
        /\ groups[g1].pc = "closed" /\ groups[g1].spared
        /\ groupMap[groups[g2].key] = g2 /\ GroupLive(g2)

\* C13: the step that sets the completed flag is taken only when wait() has
\* been called and the pool has no job, the ready queue and the delayed heap
\* are empty and no group has a queued request; the flag is never set while
\* wait() has not been called.
C13_CompletedOnlyWhenDrained ==
    /\ [](completed => ~wait)
    /\ [][(~completed /\ completed') =>
             /\ ~wait
             /\ SchedulerLen(jobs) = 0 /\ pendingQ = << >>
             /\ readyQueue = << >> /\ delayedHeap = << >>
             /\ \A g \in DOMAIN groups : groups[g].queue = << >>]_vars

\* the loop has completed after wait() was called, having dispatched a
\* rate-limited request and idled on empty queues past the first tick
C13_Witness ==
    /\ completed /\ ~wait /\ now >= 1
    /\ \E r \in Reqs : hist.transport[r] = 1 /\ hist.lastSched[reqs[r].host] >= 0

\* ------------------------------------------------------ runner and executor
engineVars == <<libVars, cfg, now, reqs, readyQueue, delayedHeap, wait, completed, loop,
                groups, groupMap, jobs, pendingQ, hist>>

\* a signal handler or the caller sets the shutdown event
SetShutdown ==
    /\ run.outer # "returned" /\ ~run.shutdown
    /\ run' = [run EXCEPT !.shutdown = TRUE]
    /\ UNCHANGED engineVars

\* a second signal or the caller sets the force-exit event
SetForceExit ==
    /\ run.outer # "returned" /\ ~run.force
    /\ run' = [run EXCEPT !.force = TRUE]
    /\ UNCHANGED engineVars

\* a handler that sets both events at the first signal
TriggerBoth(r) == [r EXCEPT !.shutdown = TRUE, !.force = TRUE]

\* _trigger: with the shutdown event set, set the force-exit event unless it
\* is set; otherwise set the shutdown event
Trigger(r) ==
    IF r.shutdown
    THEN IF ~r.force THEN [r EXCEPT !.force = TRUE] ELSE r
    ELSE [r EXCEPT !.shutdown = TRUE]

\* SIGINT or SIGTERM is delivered: the event loop calls _trigger
Signal ==
    /\ run.signals < NSignal
    /\ run' = [Trigger(run) EXCEPT !.signals = run.signals + 1]
    /\ UNCHANGED engineVars

\* shutdown_task: shutdown_event.wait() returns
ShutdownTaskDone ==
    /\ run.shTask = "pending" /\ run.shutdown
    /\ run' = [run EXCEPT !.shTask = "done"]
    /\ UNCHANGED engineVars

\* timeout_task: asyncio.sleep(execution_timeout) returns
TimeoutTaskDone ==
    /\ run.toTask = "pending" /\ now >= cfg.execTimeout
    /\ run' = [run EXCEPT !.toTask = "done"]
    /\ UNCHANGED engineVars

\* force_exit_task: force_exit.wait() returns
ForceExitTaskDone ==
    /\ run.feTask = "pending" /\ run.force
    /\ run' = [run EXCEPT !.feTask = "done"]
    /\ UNCHANGED engineVars

\* the manager has work that no worker has taken yet
ManagerActive == readyQueue # << >> \/ delayedHeap # << >> \/ RateActive

\* the condition that ends the loop of ScraperExecutor._wait
Drained == SchedulerLen(jobs) = 0 /\ ~ManagerActive

\* a producer of the start task's gather sends a request
RunSubmit ==
    /\ run.start = "gather"
    /\ Submit

\* ScraperExecutor.run: the producers return, _wait returns, and after a
\* cancellation the _wait of the finally clause returns
StartStep ==
    /\ \/ /\ run.start = "gather"
          /\ \A r \in Reqs : r <= cfg.nreq => reqs[r].st = "sent"
          /\ run' = [run EXCEPT !.start = "wait"]
       \/ /\ run.start = "wait" /\ Drained
          /\ run' = [run EXCEPT !.start = "done"]
       \/ /\ run.start = "finalWait" /\ Drained
          /\ run' = [run EXCEPT !.start = "cancelled"]
    /\ UNCHANGED engineVars

\* Task.cancel() on the start task: the first one moves run() to its finally
\* clause, one more ends the task
CancelStart(s) ==
    IF s \in {"gather", "wait"} THEN "finalWait"
    ELSE IF s = "finalWait" THEN "cancelled"
    ELSE s

CancelWaiter(t) == IF t = "pending" THEN "cancelled" ELSE t

\* the requests in the ready queue, the delayed heap or a group queue
QueuedReqs == {r \in Reqs : InReady(r) \/ InHeap(r) \/ GroupQueued(r)}

\* a test of the done set that lets a waiter win over the start task
ScraperTaskLast(r) ==
    r.start = "done" /\ r.shTask # "done" /\ r.toTask # "done"

\* "if scraper_task in done" is tested first
ScraperTaskFirst(r) == r.start = "done"

\* a close that starts with the pipelines
CloseOrderPipelineFirst == <<"pipeline", "manager", "scheduler">>

\* the coroutines of ScraperExecutor.close(), in the order they are passed
CloseOrder == <<"manager", "scheduler", "pipeline">>

\* leaving "async with scraper": __aexit__ calls close()
BeginClose(r) ==
    [r EXCEPT !.inner = "closing", !.closes = r.closes + 1, !.closeIdx = 1]

\* _run_scraper_without_force_exit resumes from asyncio.wait
InnerWake ==
    /\ run.inner = "wait"
    /\ run.start = "done" \/ run.shTask = "done" \/ run.toTask = "done"
    /\ run' =
         IF ScraperTaskFirst(run)
         THEN BeginClose([run EXCEPT !.shTask = CancelWaiter(run.shTask),
                                     !.toTask = CancelWaiter(run.toTask)])
         ELSE [run EXCEPT !.shTask = IF run.toTask = "done"
                                     THEN CancelWaiter(run.shTask) ELSE run.shTask,
                          !.toTask = CancelWaiter(run.toTask),
                          !.start = CancelStart(run.start),
                          !.cancelCalls = run.cancelCalls + 1,
                          !.inner = "drain", !.drainAt = now,
                          !.queued = QueuedReqs]
    /\ UNCHANGED engineVars

\* wait_for(scraper_task, shutdown_timeout) returns: the task has ended, or
\* the timeout cancels it once more
InnerDrainEnd ==
    /\ run.inner = "drain"
    /\ \/ /\ run.start = "cancelled"
          /\ run' = BeginClose(run)
       \/ /\ run.start # "cancelled"
          /\ now >= run.drainAt + cfg.shutdownTimeout
          /\ run' = BeginClose([run EXCEPT !.start = CancelStart(run.start),
                                           !.cancelCalls = run.cancelCalls + 1])
    /\ UNCHANGED engineVars

\* Scheduler.close(): every job is cancelled, the pending queue is dropped
CloseJobs(js) == [j \in DOMAIN js |-> ClosedJob(js[j])]

\* RateLimiterManager.close(): the map is cleared, every group is cancelled
CloseGroups(gs) ==
    [g \in DOMAIN gs |-> [gs[g] EXCEPT !.pc = "closed", !.queue = << >>, !.order = << >>,
                                       !.pr = NoPR]]

\* ------------------------------------------- RateLimiterManager.close()
\* list(self._groups.values()): the groups of the map, oldest first
MappedGroups ==
    SelectSeq([g \in 1..Len(groups) |-> g], LAMBDA g : groupMap[groups[g].key] = g)

\* close(): the groups of the map are listed and the map is cleared; with
\* no group the call returns at once. run.rl.list keeps the groups of every
\* call, run.rl.idx is the group that is closed next.
RlClose ==
    /\ run.rl.pc \in {"idle", "returned"}
    /\ run.rl.calls < 2
    /\ groupMap' = [h \in Hosts |-> 0]
    /\ run' = [run EXCEPT !.rl = [pc |-> IF MappedGroups = << >> THEN "returned"
                                         ELSE "cancel",
                                  list |-> run.rl.list \o MappedGroups,
                                  idx |-> Len(run.rl.list) + 1,
                                  calls |-> run.rl.calls + 1]]
    /\ UNCHANGED <<libVars, cfg, now, reqs, readyQueue, delayedHeap, wait, completed, loop,
                   groups, jobs, pendingQ, hist>>

\* the worker task ends with CancelledError at the await it is suspended
\* in; its done callback returns at "task.cancelled()"
CancelWorker(grp) ==
    IF grp.pc \in {"exited", "closed"} THEN grp
    ELSE [grp EXCEPT !.pc = "closed", !.queue = << >>, !.order = << >>, !.pr = NoPR]

\* RequestGroup.close(): self._task.cancel(). A worker whose wait_for has
\* the envelope already (the get has finished, the worker has not resumed)
\* either ends, or wait_for returns the envelope and the cancellation is
\* lost, which depends on the asyncio build; a spawn call of the worker that
\* waits on the pending queue is cancelled with it.
RlCancel ==
    /\ run.rl.pc = "cancel"
    /\ LET g == run.rl.list[run.rl.idx]
       IN /\ \E lost \in (IF groups[g].pc = "sched" THEN BOOLEAN ELSE {FALSE}) :
                groups' = [groups EXCEPT ![g] = IF lost THEN groups[g]
                                                ELSE CancelWorker(groups[g])]
          /\ jobs' = [j \in DOMAIN jobs |->
                        IF jobs[j].pc = "blocked" /\ jobs[j].spawner = g
                        THEN ClosedJob(jobs[j]) ELSE jobs[j]]
    /\ run' = [run EXCEPT !.rl.pc = "await"]
    /\ UNCHANGED <<libVars, cfg, now, reqs, readyQueue, delayedHeap, wait, completed, loop,
                   groupMap, pendingQ, hist>>

\* "await self._task" returns when the worker task is over; close() goes
\* on to the next group of its list, or returns
RlAwait ==
    /\ run.rl.pc = "await"
    /\ groups[run.rl.list[run.rl.idx]].pc \in {"exited", "closed"}
    /\ run' = [run EXCEPT !.rl.pc = IF run.rl.idx < Len(run.rl.list) THEN "cancel"
                                    ELSE "returned",
                          !.rl.idx = run.rl.idx + 1]
    /\ UNCHANGED engineVars

\* one coroutine of ScraperExecutor.close(), run to its end; the last one
\* ends the runner
CloseStep ==
    /\ run.inner = "closing"
    /\ IF run.closeIdx > Len(CloseOrder)
       THEN /\ run' = [run EXCEPT !.inner = "returned"]
            /\ UNCHANGED <<jobs, pendingQ, groups, groupMap>>
       ELSE LET part == CloseOrder[run.closeIdx]
            IN /\ run' = [run EXCEPT !.closeIdx = run.closeIdx + 1,
                                     !.closed = run.closed \cup {part}]
               /\ IF part = "pipeline"
                  THEN UNCHANGED <<jobs, pendingQ, groups, groupMap>>
                  ELSE /\ jobs' = CloseJobs(jobs)
                       /\ pendingQ' = << >>
                       /\ IF part = "manager"
                          THEN /\ groups' = CloseGroups(groups)
                               /\ groupMap' = [h \in Hosts |-> 0]
                          ELSE UNCHANGED <<groups, groupMap>>
    /\ UNCHANGED <<libVars, cfg, now, reqs, readyQueue, delayedHeap, wait, completed, loop, hist>>

\* _run_scraper resumes from asyncio.wait: on force-exit it cancels the
\* inner runner wherever that is, otherwise the inner runner has returned
OuterWake ==
    /\ run.outer = "wait"
    /\ run.feTask = "done" \/ run.inner = "returned"
    /\ run' =
         IF run.feTask = "done"
         THEN LET r == [run EXCEPT !.outer = "await", !.forced = TRUE]
              IN CASE run.inner = "wait" -> BeginClose(r)
                   [] run.inner = "drain" ->
                        BeginClose([r EXCEPT !.start = CancelStart(run.start),
                                             !.cancelCalls = run.cancelCalls + 1])
                   [] run.inner = "closing" -> [r EXCEPT !.inner = "returned"]
                   [] OTHER -> r
         ELSE [run EXCEPT !.outer = "returned"]
    /\ UNCHANGED engineVars

\* "await scraper_task" of the force-exit branch returns
OuterReturn ==
    /\ run.outer = "await" /\ run.inner = "returned"
    /\ run' = [run EXCEPT !.outer = "returned"]
    /\ UNCHANGED engineVars

\* spawn on a closed scheduler raises, which ends the dispatch loop
SchedulerOpen == run.closed \cap {"manager", "scheduler"} = {}

NextRun ==
    \/ SetShutdown
    \/ SetForceExit
    \/ ShutdownTaskDone
    \/ TimeoutTaskDone
    \/ ForceExitTaskDone
    \/ RunSubmit
    \/ StartStep
    \/ InnerWake
    \/ InnerDrainEnd
    \/ CloseStep
    \/ OuterWake
    \/ OuterReturn
    \/ Tick
    \/ SchedulerOpen /\ LoopTop
    \/ SchedulerOpen /\ LoopGet
    \/ SchedulerOpen /\ LoopTimeout
    \/ SchedulerOpen /\ LoopSchedule
    \/ SchedulerOpen /\ LoopWake
    \/ \E j \in DOMAIN jobs : Transport(j)
    \/ \E j \in DOMAIN jobs : Callback(j)
    \/ \E j \in DOMAIN jobs : JobDone(j)

SpecRun == InitWith(RunConfigs) /\ [][NextRun]_vars

\* a run whose events are set by the signal handlers only
NextSignal ==
    \/ Signal
    \/ ShutdownTaskDone
    \/ TimeoutTaskDone
    \/ ForceExitTaskDone
    \/ RunSubmit
    \/ StartStep
    \/ InnerWake
    \/ InnerDrainEnd
    \/ CloseStep
    \/ OuterWake
    \/ OuterReturn
    \/ Tick
    \/ SchedulerOpen /\ LoopTop
    \/ SchedulerOpen /\ LoopGet
    \/ SchedulerOpen /\ LoopTimeout
    \/ SchedulerOpen /\ LoopSchedule
    \/ SchedulerOpen /\ LoopWake
    \/ \E j \in DOMAIN jobs : Transport(j)
    \/ \E j \in DOMAIN jobs : Callback(j)
    \/ \E j \in DOMAIN jobs : JobDone(j)

SpecSignal == InitWith(RunConfigs) /\ [][NextSignal]_vars

\* the monotonic clock advances by one unit, seen from the timers: every
\* deadline comes one unit closer, and a deadline that is due stays due
TickLive ==
    /\ loop' = [loop EXCEPT !.deadline = Max(now, loop.deadline - 1)]
    /\ groups' = [g \in DOMAIN groups |->
                    [groups[g] EXCEPT !.deadline = Max(now, groups[g].deadline - 1)]]
    /\ delayedHeap' = [i \in DOMAIN delayedHeap |->
                         [delayedHeap[i] EXCEPT !.priority = Max(now, delayedHeap[i].priority - 1)]]
    /\ UNCHANGED <<libVars, cfg, run, now, reqs, readyQueue, wait, completed, groupMap, jobs,
                   pendingQ, hist>>

\* a whole run of the engine with no shutdown: producers and callbacks
\* send, wait() is called, the clock has no horizon; the pool has room for
\* every request, so no spawn() waits
NextLive ==
    \/ Submit
    \/ Wait
    \/ TickLive
    \/ LoopTop
    \/ LoopGet
    \/ LoopTimeout
    \/ LoopSchedule
    \/ LoopWake
    \/ LoopGroupPut
    \/ \E g \in DOMAIN groups : GroupGet(g)
    \/ \E g \in DOMAIN groups : GroupIdle(g)
    \/ \E g \in DOMAIN groups : GroupSchedule(g)
    \/ \E g \in DOMAIN groups : GroupWake(g)
    \/ \E j \in DOMAIN jobs : Transport(j)
    \/ \E j \in DOMAIN jobs : Callback(j)
    \/ \E j \in DOMAIN jobs : JobDone(j)

\* fair scheduling: the event loop runs every task that can run, time
\* passes, wait() is called, and a get on a queue that holds an item returns
\* it; the producers and the callbacks are free to send or not
FairLive ==
    /\ WF_vars(Wait) /\ WF_vars(TickLive)
    /\ WF_vars(LoopTop) /\ SF_vars(LoopGet) /\ WF_vars(LoopTimeout)
    /\ WF_vars(LoopSchedule) /\ WF_vars(LoopWake) /\ WF_vars(LoopGroupPut)
    /\ SF_vars(\E g \in DOMAIN groups : GroupGet(g))
    /\ WF_vars(\E g \in DOMAIN groups : GroupIdle(g))
    /\ WF_vars(\E g \in DOMAIN groups : GroupSchedule(g))
    /\ WF_vars(\E g \in DOMAIN groups : GroupWake(g))
    /\ WF_vars(\E j \in DOMAIN jobs : Transport(j))
    /\ WF_vars(\E j \in DOMAIN jobs : Callback(j))
    /\ WF_vars(\E j \in DOMAIN jobs : JobDone(j))

SpecLive == InitWith({CfgLive, CfgLiveDirect}) /\ [][NextLive]_vars /\ FairLive

\* the rate limiter fed by the dispatch loop and closed at any moment, once
\* or twice; the jobs it has scheduled are left alone
NextClose ==
    \/ Submit
    \/ Wait
    \/ Tick
    \/ LoopTop
    \/ LoopGet
    \/ LoopTimeout
    \/ LoopGroupPut
    \/ \E g \in DOMAIN groups : GroupGet(g)
    \/ \E g \in DOMAIN groups : GroupIdle(g)
    \/ \E g \in DOMAIN groups : GroupTaskDone(g)
    \/ \E g \in DOMAIN groups : GroupSchedule(g)
    \/ \E g \in DOMAIN groups : GroupWake(g)
    \/ RlClose
    \/ RlCancel
    \/ RlAwait

SpecClose == InitWith({CfgClose}) /\ [][NextClose]_vars

\* C14: once the runner has cancelled the start task on a shutdown signal or
\* on the execution timeout, no request that was in the ready queue, the
\* delayed heap or a group queue at that moment is handed to the transport.
C14_DispatchCancelled ==
    \A r \in run.queued : hist.transport[r] = 0

\* C15: when the runner resumes from its wait with the start task not done
\* (the shutdown event was set or the execution timeout elapsed first), it
\* cancels the start task; when the start task is done, it cancels the
\* pending waiters and does not cancel the start task; left to itself it
\* returns having called close() exactly once, and close() is never called
\* a second time.
C15_RunnerBranches ==
    /\ [](run.closes <= 1)
    /\ []((run.inner = "returned" /\ ~run.forced) => run.closes = 1)
    /\ [][(run.inner = "wait" /\ run'.inner # "wait" /\ run'.forced = run.forced) =>
            IF run.start = "done"
            THEN /\ run'.cancelCalls = run.cancelCalls /\ run'.start = "done"
                 /\ run'.shTask # "pending" /\ run'.toTask # "pending"
            ELSE /\ run'.cancelCalls = run.cancelCalls + 1
                 /\ run'.start = "finalWait"
                 /\ run'.closes = 0]_vars

\* the runner has returned after a shutdown: the start task was cancelled
\* and close() ran once
C15_Witness ==
    /\ run.inner = "returned" /\ ~run.forced /\ run.closes = 1
    /\ run.shTask = "done" /\ run.start = "cancelled" /\ run.cancelCalls >= 1

\* C16: when _run_scraper has returned through its force-exit branch, the
\* start task has been cancelled (or had completed by itself).
C16_ForceExitCancels ==
    (run.outer = "returned" /\ run.forced) => run.start \in {"done", "cancelled"}

Resubmits(j) ==
    /\ j \in DOMAIN jobs /\ jobs[j].pc = "retrySleep"
    /\ hist'.resent[jobs[j].req] = hist.resent[jobs[j].req] + 1

\* the failure of job j is an HTTP error answered with a Retry-After header
HasRetryAfter(j) == jobs[j].exc.kind = "http" /\ cfg.retryAfter > 0

\* the request is put on the delayed heap in this step, due d from now
ScheduledIn(r, d) ==
    \E i \in DOMAIN delayedHeap' :
        delayedHeap'[i] = [priority |-> now + d, request |-> r]

\* C18: when the retry middleware re-submits a request whose failure
\* carries Retry-After: N, the request is scheduled with delay N, whatever
\* the backoff strategy, the base delay and the attempt number.
C18_RetryAfter ==
    [][\A j \in DOMAIN jobs :
          (Resubmits(j) /\ HasRetryAfter(j)) =>
              ScheduledIn(jobs[j].req, cfg.retryAfter)]_vars

\* C19: when the retry middleware re-submits a request whose failure carries
\* no Retry-After header, the attempt counter k has been incremented before
\* and the request is scheduled with delay delay_factory(k).
C19_BackoffDelay ==
    [][\A j \in DOMAIN jobs :
          (Resubmits(j) /\ ~HasRetryAfter(j)) =>
              /\ reqs[jobs[j].req].retries = hist.resent[jobs[j].req] + 1
              /\ ScheduledIn(jobs[j].req,
                             DelayFactory(cfg.backoff, cfg.baseDelay, cfg.maxDelay,
                                          reqs[jobs[j].req].retries))]_vars

\* C20: a step of the outer chain, whatever the middleware raised, keeps
\* the envelope and goes to the next outer middleware, or after the last
\* one to the rate limiter; the rate limiter is reached only after all
\* outer middlewares have run.
C20_OuterCannotAbort ==
    /\ []((loop.pc = "limit" /\ cfg.nOuter > 0) => loop.idx = cfg.nOuter)
    /\ [][(loop.pc = "outer" /\ loop' # loop) =>
            /\ loop'.pr = loop.pr
            /\ IF loop.idx < cfg.nOuter
               THEN loop'.pc = "outer" /\ loop'.idx = loop.idx + 1
               ELSE loop'.pc = "limit"]_vars

\* one of two outer middlewares raised, both have run and the
\* request is being handed to the rate limiter
C20_Witness ==
    /\ cfg.nOuter = 2 /\ loop.pc = "limit" /\ loop.idx = 2
    /\ loop.raised /\ loop.pr # NoPR

\* C21: a step in which the errback of a job raises ends the worker with
\* the raised group leaving it, and the exception the group was made of
\* (its first member, the errback's own exception being the second) is the
\* exception the error path was first entered with.
C21_ErrbackFailureSurfaces ==
    [][\A j \in DOMAIN jobs :
         (/\ j \in DOMAIN jobs' /\ jobs[j].pc = "errback"
          /\ jobs'[j].eb = jobs[j].eb + 1
          /\ (jobs'[j].ctx = "raised" \/ jobs'[j].exc # jobs[j].exc))
             => /\ jobs'[j].pc = "finished" /\ jobs'[j].ctx = "raised"
                /\ jobs'[j].exc = jobs'[j].hexc]_vars

\* C22: iterating a stage yields exactly the middlewares registered for
\* it, in ascending priority and, among equal priorities, in the order of
\* their registration; and a registration leaves the other three stages
\* as they were.
C22_HolderOrder ==
    /\ [](\A stage \in Stages :
            LET it == Iterate(holder, stage)
            IN /\ {it[i] : i \in DOMAIN it}
                    = {m \in DOMAIN registered : registered[m].stage = stage}
               /\ \A i, k \in DOMAIN it : i < k =>
                    \/ registered[it[i]].priority < registered[it[k]].priority
                    \/ /\ registered[it[i]].priority = registered[it[k]].priority
                       /\ it[i] < it[k])
    /\ [][\A stage \in Stages :
            Iterate(holder', stage) # Iterate(holder, stage) =>
                \A other \in Stages \ {stage} :
                    Iterate(holder', other) = Iterate(holder, other)]_vars

\* a middleware registered later with a lower priority runs before an
\* earlier one, behind its equals, and another stage holds middlewares too
C22_Witness ==
    \E stage \in Stages : \E other \in Stages \ {stage} :
        LET it == Iterate(holder, stage)
        IN /\ Len(it) = 3 /\ it[1] < it[2] /\ it[3] < it[2]
           /\ registered[it[1]].priority = registered[it[2]].priority
           /\ registered[it[2]].priority < registered[it[3]].priority
           /\ Iterate(holder, other) # << >>

\* the steps of a container in the order of its three lists
ChainOrder(shape) ==
    [i \in 1..shape.pre |-> [s |-> "pre", i |-> i]]
    \o [i \in 1..shape.pipe |-> [s |-> "pipe", i |-> i]]
    \o [i \in 1..shape.post |-> [s |-> "post", i |-> i]]

\* C23: a put_item call on a dispatcher without global middlewares, for an
\* item with a container, in which every step returned normally: the steps
\* called are the pre-middlewares, the pipelines and the post-middlewares,
\* each list in its order; the first got the item of the call, every other
\* one the item the step before it returned; and the call returns what the
\* last step returned.
C23_ChainOrder ==
    (/\ disp.pc = "done" /\ disp.shape.registered /\ disp.shape.globals = 0
     /\ disp.raised = "none"
     /\ \A k \in DOMAIN disp.audit : disp.audit[k].o = "ok")
        => LET order == ChainOrder(disp.shape)
               n == Len(order)
           IN /\ Len(disp.audit) = n
              /\ \A k \in 1..n :
                   /\ disp.audit[k].s = order[k].s /\ disp.audit[k].i = order[k].i
                   /\ disp.audit[k].got = SubSeq(order, 1, k - 1)
              /\ disp.result = order

\* two pre-middlewares, two pipelines and two post-middlewares have run
C23_Witness ==
    /\ disp.pc = "done" /\ disp.raised = "none" /\ Len(disp.result) = 6
    /\ disp.shape.pre = 2 /\ disp.shape.pipe = 2 /\ disp.shape.post = 2

\* C24: in a put_item call without global middlewares: after a
\* pre-middleware raised StopMiddlewareProcessing no other pre-middleware
\* is called, the first pipeline (or, without pipelines, the first
\* post-middleware) is next, and unless a later step stops the item or
\* fails, all pipelines are called and the post-middlewares are entered;
\* after a post-middleware raised StopMiddlewareProcessing, or any pre- or
\* post-middleware raised StopItemProcessing, nothing else is called and
\* the call returns the item that middleware was given.
C24_StopRules ==
    disp.shape.globals = 0 =>
        \A k \in DOMAIN disp.audit :
            LET e == disp.audit[k]
                last == k = Len(disp.audit)
            IN /\ (e.s = "pre" /\ e.o = "stopMw") =>
                    /\ \A m \in DOMAIN disp.audit : m > k => disp.audit[m].s # "pre"
                    /\ last =>
                         CASE disp.shape.pipe > 0 -> disp.pc = "pipe" /\ disp.idx = 1
                           [] disp.shape.post > 0 -> disp.pc = "post" /\ disp.idx = 1
                           [] OTHER -> disp.pc = "done" /\ disp.result = e.got
                    /\ ~last => disp.audit[k + 1].got = e.got
                    /\ (/\ disp.pc = "done" /\ disp.raised = "none"
                        /\ \A m \in DOMAIN disp.audit :
                               m > k => disp.audit[m].o \in {"ok", "stopMw"})
                       => /\ \A i \in 1..disp.shape.pipe : \E m \in DOMAIN disp.audit :
                                m > k /\ disp.audit[m].s = "pipe" /\ disp.audit[m].i = i
                          /\ disp.shape.post > 0 => \E m \in DOMAIN disp.audit :
                                m > k /\ disp.audit[m].s = "post" /\ disp.audit[m].i = 1
               /\ ((e.s = "post" /\ e.o = "stopMw") \/ e.o = "stopItem") =>
                    /\ last /\ disp.pc = "done"
                    /\ disp.raised = "none" /\ disp.result = e.got

\* the first pre-middleware stopped the pre stage, the second was skipped,
\* and two pipelines and a post-middleware have run
C24_Witness ==
    /\ disp.pc = "done" /\ disp.shape.pre = 2 /\ disp.shape.pipe = 2
    /\ Len(disp.audit) >= 4
    /\ disp.audit[1].s = "pre" /\ disp.audit[1].o = "stopMw"
    /\ disp.audit[2].s = "pipe" /\ disp.audit[3].s = "pipe"
    /\ disp.audit[4].s = "post" /\ disp.audit[4].o = "ok"

\* C25: the global middlewares are on the call stack from the last
\* registered one (entered first, once per put_item) down; a middleware is
\* entered once for every call_next of the one registered after it; the
\* chain of the container runs once for every call_next of the first
\* registered middleware, hence only while every global middleware is
\* inside a call_next of its own.
C25_GlobalNesting ==
    LET n == disp.shape.globals
    IN (n > 0 /\ disp.pc # "idle") =>
        /\ disp.entered[n] = 1
        /\ \A g \in 1..(n - 1) : disp.entered[g] = disp.ncalls[g + 1]
        /\ disp.runs = disp.ncalls[1]
        /\ \A k \in DOMAIN disp.stack : disp.stack[k].mw = n + 1 - k
        /\ disp.pc \in {"pre", "pipe", "post"} =>
              /\ Len(disp.stack) = n
              /\ \A k \in DOMAIN disp.stack : disp.stack[k].calls >= 1
        /\ disp.audit # << >> => disp.runs >= 1

\* the second of two global middlewares called call_next twice, the
\* first one once each time, and the chain has run twice
C25_Witness ==
    /\ disp.shape.globals = 2 /\ disp.pc = "done"
    /\ disp.ncalls[2] = 2 /\ disp.ncalls[1] = 2 /\ disp.runs = 2
    /\ Len(disp.audit) = 3 /\ Len(disp.result) = 3

\* C26: a request handed to the sender with json_data and data, or with
\* json_data and files, is refused in a step that leaves the ready queue
\* and the delayed heap as they were, and the request never gets anywhere
\* in the engine; every request on the ready queue or the delayed heap has
\* json_data alone or no json_data.
C26_SenderRejects ==
    /\ [][\A r \in Reqs :
            (/\ reqs[r].st = "new" /\ reqs'[r].st # "new"
             /\ "json_data" \in reqs'[r].body
             /\ reqs'[r].body \cap {"data", "files"} # {})
                => /\ reqs'[r].st = "rejected"
                   /\ readyQueue' = readyQueue /\ delayedHeap' = delayedHeap]_vars
    /\ [](\A r \in Reqs :
            /\ reqs[r].st = "rejected" =>
                  (~InReady(r) /\ ~InHeap(r) /\ JobsOf(r) = {} /\ hist.transport[r] = 0)
            /\ (InReady(r) \/ InHeap(r)) =>
                  ("json_data" \notin reqs[r].body \/ reqs[r].body = {"json_data"}))

\* a request with json_data and files was refused while a request with
\* data and files waits on the delayed heap
C26_Witness ==
    \E r, q \in Reqs :
        /\ reqs[r].st = "rejected" /\ reqs[r].body = {"json_data", "files"}
        /\ InHeap(q) /\ reqs[q].body = {"data", "files"}

\* the number of entries x at the end of the log
RECURSIVE TrailingRun(_, _)
TrailingRun(log, x) ==
    IF log = << >> \/ log[Len(log)] # x THEN 0
    ELSE 1 + TrailingRun(SubSeq(log, 1, Len(log) - 1), x)

\* a success counter that is reset by a failure and on reaching the threshold
RECURSIVE ResettingCounter(_, _)
ResettingCounter(log, threshold) ==
    IF log = << >> \/ log[Len(log)] = "f" THEN 0
    ELSE LET n == ResettingCounter(SubSeq(log, 1, Len(log) - 1), threshold) + 1
         IN IF n >= threshold THEN 0 ELSE n

\* a call of calculate_interval was the last thing done with the strategy
Called == adapt.last.current # 0

\* the outcome of the last call carried a Retry-After that the strategy honours
Honoured == adapt.c.respect /\ adapt.last.outcome.has

\* C27 as stated: for a call whose outcome carries no Retry-After to honour,
\* a trigger failure gives min(max_interval, current * increase_factor) and
\* a success counter of zero; a success increments the counter and, when
\* the counter reaches the threshold, gives max(min_interval, current -
\* decrease_step) and a counter of zero again; otherwise the interval is
\* unchanged.
C27_ReferenceRule ==
    (Called /\ ~Honoured) =>
        LET l == adapt.last
            c == adapt.c
            m == adapt.metrics[l.key]
            log == adapt.log[l.key]
            before == ResettingCounter(SubSeq(log, 1, Len(log) - 1), c.threshold)
        IN IF l.outcome.trigger
           THEN l.next = Min(c.max, l.current * c.factor) /\ m.success = 0
           ELSE IF before + 1 >= c.threshold
                THEN l.next = Max(c.min, l.current - c.step) /\ m.success = 0
                ELSE l.next = l.current /\ m.success = before + 1

\* C27 amended: a trigger failure gives min(max_interval, current *
\* increase_factor) and a success counter of zero; a success makes the
\* counter the number of successes since the last failure, and gives
\* max(min_interval, current - decrease_step) whenever that number is at
\* least the threshold (the counter is not reset by reaching it), else the
\* interval unchanged; an honoured Retry-After gives min(max_interval,
\* retry_after) instead.
C27_DecreaseFromThresholdOn ==
    Called =>
        LET l == adapt.last
            c == adapt.c
            m == adapt.metrics[l.key]
            n == TrailingRun(adapt.log[l.key], "s")
        IN /\ m.success = n
           /\ l.next = CASE Honoured -> Min(c.max, l.outcome.retryAfter)
                         [] ~Honoured /\ l.outcome.trigger -> Min(c.max, l.current * c.factor)
                         [] ~Honoured /\ ~l.outcome.trigger /\ n >= c.threshold ->
                                Max(c.min, l.current - c.step)
                         [] OTHER -> l.current

\* the third success in a row has lowered the interval as the second did
C27_Witness ==
    /\ Called /\ ~adapt.last.outcome.trigger
    /\ adapt.metrics[adapt.last.key].success = 3
    /\ adapt.last.current = 5 /\ adapt.last.next = 3

\* C28: the interval returned by a call with a current interval between
\* min_interval and max_interval lies between min_interval and
\* max_interval.
C28_IntervalInBounds ==
    (Called /\ adapt.last.current \in adapt.c.min..adapt.c.max)
        => adapt.last.next \in adapt.c.min..adapt.c.max

\* C29: the metrics of every group count the successes at the end of what
\* was recorded for the group, the failures at its end, and all that was
\* recorded, so one of the two counters is zero; and a call changes the
\* metrics of the group it names only.
C29_MetricsCounters ==
    /\ [](\A k \in Hosts :
            LET m == adapt.metrics[k]
            IN /\ m.success = TrailingRun(adapt.log[k], "s")
               /\ m.failure = TrailingRun(adapt.log[k], "f")
               /\ m.total = Len(adapt.log[k])
               /\ m.success = 0 \/ m.failure = 0)
    /\ [][\A k \in Hosts :
            adapt'.metrics[k] # adapt.metrics[k] =>
                \A other \in Hosts \ {k} : adapt'.metrics[other] = adapt.metrics[other]]_vars

\* one group has two failures after a success, the other two successes
\* after a failure
C29_Witness ==
    /\ adapt.log["a"] = <<"s", "f", "f">> /\ adapt.metrics["a"].failure = 2
    /\ adapt.log["b"] = <<"f", "s", "s">> /\ adapt.metrics["b"].success = 2

\* C30: every envelope on the ready queue carries the priority field of
\* its request as its sort key, also an envelope that came from the delayed
\* heap, whose request has its delay reset.
C30_ReadyKeyIsPriority ==
    \A i \in DOMAIN readyQueue :
        LET r == readyQueue[i].request
        IN /\ readyQueue[i].priority = reqs[r].priority
           /\ reqs[r].delay = 0

\* C31: the request a group worker takes from its queue is the one that was
\* put into the group first among those waiting there, whatever the
\* priorities of the waiting requests.
C31_GroupFifo ==
    [][\A g \in DOMAIN groups :
          (groups[g].pc = "get" /\ groups'[g].pc = "sched")
              => groups'[g].pr.request = Head(groups[g].order)]_vars

\* C32: an error raised while the dispatch loop hands a request to the rate
\* limiter, or while a group worker schedules a request, ends neither the
\* loop nor the worker: from the hand-off the loop goes back to its while
\* condition (or to its sleep), and from the schedule call the worker goes
\* to its sleep.
C32_ErrorsDoNotTerminate ==
    [][/\ (loop.pc = "limit" /\ loop'.pc # "limit")
           => loop'.pc \in {"top", "sleep", "spawn"}
       /\ \A g \in DOMAIN groups :
              (groups[g].pc = "sched" /\ groups'[g].pc # "sched")
                  => groups'[g].pc \in {"sleep", "spawn"}]_vars

\* the part of C32 about the group worker alone
C32_WorkerSurvives ==
    [][\A g \in DOMAIN groups :
          (groups[g].pc = "sched" /\ groups'[g].pc # "sched")
              => groups'[g].pc \in {"sleep", "spawn"}]_vars

\* the groups that some close() call has listed
ClosedList == {run.rl.list[i] : i \in DOMAIN run.rl.list}

\* C33: when close() returns the group map is empty; from then on every
\* group it listed has a worker that is over and schedules no request; and
\* a second close(), called with nothing handed over in between, changes
\* neither the groups nor the map and returns at once.
C33_CloseLeavesNothing ==
    /\ [][(run.rl.pc # "returned" /\ run'.rl.pc = "returned") =>
             \A h \in Hosts : groupMap'[h] = 0]_vars
    /\ [](run.rl.pc = "returned" =>
             \A g \in ClosedList : groups[g].pc \in {"exited", "closed"})
    /\ [][run.rl.pc = "returned" =>
             \A j \in DOMAIN jobs' \ DOMAIN jobs : jobs'[j].spawner \notin ClosedList]_vars
    /\ [][(/\ run.rl.pc = "returned" /\ run'.rl.calls > run.rl.calls
            /\ \A h \in Hosts : groupMap[h] = 0) =>
             /\ groups' = groups /\ groupMap' = groupMap
             /\ run'.rl.pc = "returned"]_vars

\* the parts of C33 about the listed workers alone
C33_ListedWorkersOver ==
    /\ [](run.rl.pc = "returned" =>
             \A g \in ClosedList : groups[g].pc \in {"exited", "closed"})
    /\ [][run.rl.pc = "returned" =>
             \A j \in DOMAIN jobs' \ DOMAIN jobs : jobs'[j].spawner \notin ClosedList]_vars

\* C34: a worker that has entered the response context leaves it exactly
\* once: while it has not released the response it is inside the block, it
\* never releases more than it has entered, and when the worker is over the
\* response it entered has been released once - after a callback that
\* returned, after a StopRequestProcessing or an error of a response
\* middleware, after a callback that raised, and after the HTTP-error path.
C34_ContextReleasedOnce ==
    \A j \in DOMAIN jobs :
        jobs[j].pc # "closed" =>
            /\ jobs[j].entered <= 1
            /\ jobs[j].released <= jobs[j].entered
            /\ jobs[j].released < jobs[j].entered => InContext(jobs[j])
            /\ jobs[j].pc = "finished" => jobs[j].released = jobs[j].entered

\* a worker is over whose response was not ok: the errback ran inside the
\* response context and raised, the context was left once, and the handler
\* ran again outside it
C34_Witness ==
    \E j \in DOMAIN jobs :
        /\ jobs[j].pc = "finished" /\ jobs[j].hexc.kind = "http"
        /\ jobs[j].eb = 2 /\ jobs[j].entered = 1 /\ jobs[j].released = 1

\* C35: the first signal sets the shutdown event and leaves the force-exit
\* event unset, the second sets the force-exit event, a later one changes
\* neither; the force-exit event is set only when the shutdown event is,
\* and no step clears an event.
C35_SignalEvents ==
    /\ [](run.force => run.shutdown)
    /\ [][/\ run.shutdown => run'.shutdown
          /\ run.force => run'.force
          /\ run'.signals = run.signals + 1 =>
                /\ run.signals = 0 => (run'.shutdown /\ ~run'.force)
                /\ run.signals = 1 => (run'.shutdown /\ run'.force)
                /\ run.signals >= 2 =>
                      (run'.shutdown = run.shutdown /\ run'.force = run.force)]_vars

\* a third signal has been delivered to a run that the second one had
\* forced to exit
C35_Witness ==
    run.signals >= 3 /\ run.shutdown /\ run.force /\ run.forced

\* C36: at the step in which the dispatch loop completes (it was not
\* cancelled), the ready queue, the delayed heap and every group queue are
\* empty, and neither a group worker nor the loop holds a request it has
\* dequeued and not yet spawned.
C36_NothingLeftAtCompletion ==
    [][(~completed /\ completed' /\ loop'.pc = "done") =>
          /\ readyQueue' = << >>
          /\ delayedHeap' = << >>
          /\ loop'.pr = NoPR
          /\ \A g \in DOMAIN groups' :
                /\ groups'[g].queue = << >>
                /\ groups'[g].pr = NoPR]_vars

\* C37: a worker makes one transport attempt; in it every middleware of the
\* exception chain is invoked at most once (the chain is run at most once)
\* and the errback is invoked at most once, whatever the errback and the
\* exception middlewares do.
C37_HandledOnce ==
    \A j \in DOMAIN jobs :
        /\ jobs[j].tr <= 1
        /\ jobs[j].excInv <= Len(cfg.excChain)
        /\ jobs[j].eb <= 1

\* C38: a group worker exits at the idle timeout only with an empty queue,
\* and leaves the map in that step; a worker that has exited holds nothing;
\* a group with a queued or held request is the one its key is mapped to, so
\* no request is put into the queue of a dead or unmapped group; and every
\* accepted request is in exactly one place - the ready queue, the delayed
\* heap, the loop's hands, a group queue, a group worker's hands or a job -
\* so it is scheduled once and not twice.
C38_NeverStranded ==
    /\ [](\A g \in DOMAIN groups :
            /\ groups[g].pc = "exited" => (groups[g].queue = << >> /\ groups[g].pr = NoPR)
            /\ (groups[g].queue # << >> \/ groups[g].pr # NoPR) =>
                  (groupMap[groups[g].key] = g /\ groups[g].pc # "exited"))
    /\ [](\A r \in Reqs :
            LET In(q) == Cardinality({i \in DOMAIN q : q[i].request = r})
                places == In(readyQueue) + In(delayedHeap)
                          + (IF loop.pc \in {"outer", "limit"} /\ loop.pr.request = r
                             THEN 1 ELSE 0)
                          + Cardinality({g \in DOMAIN groups :
                                groups[g].pc = "sched" /\ groups[g].pr.request = r})
                          + Cardinality({j \in DOMAIN jobs : jobs[j].req = r})
                grouped == {g \in DOMAIN groups : In(groups[g].queue) > 0}
            IN /\ \A g \in grouped : In(groups[g].queue) = 1
               /\ places + Cardinality(grouped) = (IF reqs[r].st = "sent" THEN 1 ELSE 0))
    /\ [][\A g \in DOMAIN groups :
            (groups[g].pc # "exited" /\ groups'[g].pc = "exited") =>
                /\ groups[g].queue = << >> /\ groups[g].pr = NoPR
                /\ groupMap'[groups[g].key] # g]_vars

\* the worker of a group has idled out, a later request for the same key
\* got a new group, and that group's worker has scheduled it
C38_Witness ==
    \E g1, g2 \in DOMAIN groups :
        /\ groups[g1].pc = "exited" /\ groups[g2].key = groups[g1].key
        /\ groupMap[groups[g2].key] = g2
        /\ \E j \in DOMAIN jobs : jobs[j].spawner = g2

\* C39: while the dispatch loop waits on the ready queue, the deadline of
\* its wait is not later than the earliest due time on the delayed heap,
\* and not later than one slice from now when the heap is empty.
C39_WakeUpCoversHeap ==
    loop.pc = "get" =>
        IF delayedHeap = << >>
        THEN loop.deadline <= now + Slice
        ELSE loop.deadline <= HeapTop(delayedHeap).priority

\* C40: with fair scheduling, wait() called and no shutdown, every request
\* the sender accepted eventually has a worker that ran to its end, the
\* dispatch loop eventually completes, and then wait() returns (it polls
\* the completed flag).
C40_EveryRequestEnds ==
    /\ \A r \in Reqs :
          (reqs[r].st = "sent") ~>
              (JobsOf(r) # {} /\ \A j \in JobsOf(r) : jobs[j].pc \in {"finished", "closed"})
    /\ <>[]completed

====
